---- MODULE Spec2Model ----
(***************************************************************************)
(* A model of src/src/auth.rs (rust-msal): the PublicClientApplication    *)
(* entry points, the requests they send and the results they return.      *)
(*                                                                         *)
(* Text.  A string is a sequence of tokens.  A token is either one        *)
(* character of Reserved (a character the urlencoding crate escapes) or a *)
(* word: a non-empty run of characters that crate leaves alone            *)
(* (A-Z a-z 0-9 - _ . ~).  "openid profile" is <<"openid", " ",           *)
(* "profile">>.  Strings given to the program never hold two adjacent     *)
(* words, so two token sequences are equal exactly when the strings are.  *)
(*                                                                         *)
(* Collaborators.  The transport answers a POST with a failure or with a  *)
(* status and a body; the signer and the OS-release lookup answer with a  *)
(* value or a failure.  Their answers are chosen by the environment.      *)
(***************************************************************************)
EXTENDS Integers, Sequences, FiniteSets, TLC

VARIABLES
    config,        \* the PublicClientApplication: client_id, tenant_id, authority_host
    pc,            \* pc[t]: where task t's entry-point call stands
    call,          \* call[t]: the entry point task t called, with its arguments
    local,         \* local[t]: the call's local bindings (nonce, jwt, signer)
    log,           \* log[t]: what the call has done so far, in order
    result,        \* result[t]: the Result the call returned
    held,          \* held[t]: the DeviceAuthorizationResponse binding the caller owns
    flows,         \* flows[t]: the device flow the caller is polling: code, polls
    issued         \* how many nonces the authority has issued so far

vars == <<config, pc, call, local, log, result, held, flows, issued>>

(***************************************************************************)
(* Bounds of the model.                                                    *)
(***************************************************************************)
MaxScopes == 2     \* longest scope list a caller passes
MaxNonces == 3     \* nonces the authority issues in one behaviour
MaxPolls  == 2     \* consecutive pending polls counted per device flow

Tasks == {1, 2}    \* logical tasks sharing the one PublicClientApplication
SeqTasks == {1}    \* the task that runs when calls are made one after another

\* Option<T>: Nothing, or Some(x); a sequence of at most one element.
Nothing == <<>>
Some(x) == <<x>>
IsSome(o) == Len(o) = 1
Unwrap(o) == o[1]

NoTag == "none"

(***************************************************************************)
(* Text helpers.                                                           *)
(***************************************************************************)
RECURSIVE Join(_, _)
\* [T]::join(sep) of the standard library, as used at auth.rs:250 and :264.
Join(parts, sep) ==
    IF parts = <<>> THEN <<>>
    ELSE IF Len(parts) = 1 THEN parts[1]
    ELSE parts[1] \o sep \o Join(Tail(parts), sep)

RECURSIVE Concat(_)
\* The words of a text written one after the other as one word.
Concat(words) == IF words = <<>> THEN "" ELSE Head(words) \o Concat(Tail(words))

Reserved == {" ", "@", "/", ":", "&", "=", "%", "+"}

HexOf(c) ==
    CASE c = " " -> "20" [] c = "@" -> "40" [] c = "/" -> "2F" [] c = ":" -> "3A"
      [] c = "&" -> "26" [] c = "=" -> "3D" [] c = "%" -> "25" [] c = "+" -> "2B"

CharOf(h) ==
    CASE h = "20" -> " " [] h = "40" -> "@" [] h = "2F" -> "/" [] h = "3A" -> ":"
      [] h = "26" -> "&" [] h = "3D" -> "=" [] h = "25" -> "%" [] h = "2B" -> "+"

HexWords == {HexOf(c) : c \in Reserved}

RECURSIVE url_encode(_)
\* urlencoding::encode: every character outside A-Z a-z 0-9 - _ . ~ becomes %XX.
url_encode(s) ==
    IF s = <<>> THEN <<>>
    ELSE (IF Head(s) \in Reserved THEN <<"%", HexOf(Head(s))>> ELSE <<Head(s)>>)
         \o url_encode(Tail(s))

\* What the receiving form parser does to a value: %XX becomes the character.
\* A hex word is never "%", so escapes cannot overlap and each token is
\* decided by its neighbours alone.
url_decode(s) ==
    LET n == Len(s)
        IsEscape(i) == s[i] = "%" /\ i < n /\ s[i + 1] \in HexWords
        marked == [i \in 1..n |->
                     [drop |-> i > 1 /\ IsEscape(i - 1),
                      tok |-> IF IsEscape(i) THEN CharOf(s[i + 1]) ELSE s[i]]]
        kept == SelectSeq(marked, LAMBDA m : ~m.drop)
    IN [i \in 1..Len(kept) |-> kept[i].tok]

\* The decoded values of the form fields named key in a urlencoded body, in
\* order, as the authority reads them: fields are separated by "&", and a
\* field is its name, "=", and its value.
FormValues(body, key) ==
    LET n == Len(body)
        IsStart(i) ==
            /\ body[i] = key
            /\ i < n
            /\ body[i + 1] = "="
            /\ (i = 1 \/ body[i - 1] = "&")
        starts == SelectSeq([i \in 1..n |-> i], IsStart)
        EndOf(i) ==
            LET amps == {j \in i..n : body[j] = "&"}
            IN IF amps = {} THEN n
               ELSE (CHOOSE j \in amps : \A k \in amps : j <= k) - 1
    IN [k \in 1..Len(starts) |->
          url_decode(SubSeq(body, starts[k] + 2, EndOf(starts[k])))]

(***************************************************************************)
(* Program constants and the values callers and the authority supply.     *)
(***************************************************************************)
BROKER_CLIENT_IDENT == <<"38aa3b87-a06d-4817-b275-7a316988d93b">>
DRS_APP_ID == <<"01cb2876-7ebd-4aa4-9cc9-d28bd4d359a9">>

\* PublicClientApplication::new(client_id, tenant_id, authority_host)
PublicClientApplication_new(client_id, tenant_id, authority_host) ==
    [client_id |-> client_id, tenant_id |-> tenant_id, authority_host |-> authority_host]

AppClientId == <<"d3590ed6-52b3-4102-aeff-aad2292ab01c">>
AppTenant == <<"contoso.onmicrosoft.com">>
AppHost == <<"login.microsoftonline.com">>

Usernames == {<<"user", "@", "contoso.com">>}
Passwords == {<<"p", "@", "ss", "&", "x", "=", "1">>}
RefreshTokens == {<<"0.AAAA", "+", "rt", "/", "1">>}
IdentityKeys == {"id_key"}
OsReleases == {Nothing, Some(<<"Debian", " ", "12">>)}

\* Scope strings a caller may pass: plain, with a path, a repeated baseline
\* scope, and one holding a space and an ampersand.
ScopeChoices ==
    {<<"user.read">>, <<"openid">>, <<"api", ":", "/", "/", "x", "/", ".default">>,
     <<"a", " ", "b", "&", "c">>}

RECURSIVE SeqsUpTo(_, _)
SeqsUpTo(S, n) ==
    IF n = 0 THEN {<<>>}
    ELSE LET shorter == SeqsUpTo(S, n - 1)
         IN shorter \cup {Append(q, x) : q \in {r \in shorter : Len(r) = n - 1}, x \in S}

ScopeLists == SeqsUpTo(ScopeChoices, MaxScopes)

\* The scope lists used where the scopes are not what is examined.
FewScopeLists == {<<>>, << <<"user.read">> >>}

\* The n-th nonce the authority issues; it never issues one twice.
NonceStr(n) == <<"nonce-" \o ToString(n)>>

(***************************************************************************)
(* Results: Result<T, MsalError>.                                          *)
(***************************************************************************)
\* val holds the Ok value, or the ErrorResponse of AcquireTokenFailed; msg the
\* text of a TPMFail.
Ok(v) == [ok |-> TRUE, kind |-> "Ok", val |-> Some(v), msg |-> ""]
Err(kind) == [ok |-> FALSE, kind |-> kind, val |-> Nothing, msg |-> ""]
AcquireTokenFailed(json_resp) ==
    [ok |-> FALSE, kind |-> "AcquireTokenFailed", val |-> Some(json_resp), msg |-> ""]
TPMFail(msg) == [ok |-> FALSE, kind |-> "TPMFail", val |-> Nothing, msg |-> msg]
NoResult == [ok |-> FALSE, kind |-> NoTag, val |-> Nothing, msg |-> ""]

ErrorKinds == {"RequestFailed", "InvalidJson", "AcquireTokenFailed", "TPMFail"}

(***************************************************************************)
(* JSON values (serde_json::Value) and the text of the nested encodings.  *)
(*                                                                         *)
(* The content of a JSON string inside a nested payload is a sequence of  *)
(* words and quote characters.  The content of a string of the token      *)
(* response is a sequence of runs and dots: a run is a maximal stretch of *)
(* characters other than ".", described by its characters (text) when     *)
(* only those matter, and by what base64 makes of it: whether it ends in  *)
(* padding, whether it is otherwise base64url text of a decodable length  *)
(* (clean), and the bytes it then stands for.                              *)
(***************************************************************************)
JNull == [kind |-> "null", str |-> <<>>, members |-> <<>>]
JString(s) == [kind |-> "string", str |-> s, members |-> <<>>]
JNumber(digits) == [kind |-> "number", str |-> <<digits>>, members |-> <<>>]
JObject(members) == [kind |-> "object", str |-> <<>>, members |-> members]
JMember(name, value) == [name |-> name, value |-> value]

\* Bytes: whether they are UTF-8, whether that text is JSON, and its value.
Bytes(utf8, isJson, value) == [utf8 |-> utf8, json |-> isJson, value |-> value]
NoBytes == Bytes(TRUE, FALSE, JNull)          \* no bytes: the text "", not JSON
BinaryBytes == Bytes(FALSE, FALSE, JNull)     \* bytes that are not UTF-8
ProseBytes == Bytes(TRUE, FALSE, JNull)       \* UTF-8 text that is not JSON
JsonBytes(value) == Bytes(TRUE, TRUE, value)  \* the JSON text of value

Dot == [dot |-> TRUE, text |-> ".", padded |-> FALSE, clean |-> FALSE, bytes |-> NoBytes]
Run(text, padded, clean, bytes) ==
    [dot |-> FALSE, text |-> text, padded |-> padded, clean |-> clean, bytes |-> bytes]

\* A word whose characters are all that matters ("Bearer", an access token).
Word(text) == Run(text, FALSE, TRUE, BinaryBytes)
\* The unpadded base64url text of bytes, the same text with "=" appended,
\* and the same text in the standard alphabet ("+" and "/").
B64(bytes) == Run("", FALSE, TRUE, bytes)
B64Padded(bytes) == Run("", TRUE, TRUE, bytes)
B64Standard(bytes) == Run("", FALSE, FALSE, bytes)

Q == "\""
BS == "\\"

\* Result<T, D::Error> of a decoding step.
DecodeOk(v) == [ok |-> TRUE, val |-> Some(v)]
DecodeErr == [ok |-> FALSE, val |-> Nothing]

(***************************************************************************)
(* The Response Codec: decode_id_token and decode_client_info, with the   *)
(* library calls they make.                                                *)
(***************************************************************************)
\* URL_SAFE_NO_PAD.decode(s): the empty string decodes to no bytes; a "." or
\* a "+" is outside the alphabet; padding is refused.
URL_SAFE_NO_PAD_decode(s) ==
    IF s = <<>> THEN DecodeOk(NoBytes)
    ELSE IF Len(s) = 1 /\ ~s[1].dot /\ s[1].clean /\ ~s[1].padded
    THEN DecodeOk(s[1].bytes)
    ELSE DecodeErr

\* String::from_utf8(bytes)
from_utf8(bytes) == IF bytes.utf8 THEN DecodeOk(bytes) ELSE DecodeErr

\* serde_json::from_str::<Value>(text)
json_from_str(text) == IF text.json THEN DecodeOk(text.value) ELSE DecodeErr

\* s.splitn(n, '.'): the pieces between the first n - 1 dots; the last piece
\* keeps the dots after them.  There is always a first piece.
splitn(n, s) ==
    LET dots == SelectSeq([i \in 1..Len(s) |-> i], LAMBDA i : s[i].dot)
        cuts == IF Len(dots) < n - 1 THEN Len(dots) ELSE n - 1
        From(k) == IF k = 1 THEN 1 ELSE dots[k - 1] + 1
        To(k) == IF k = cuts + 1 THEN Len(s) ELSE dots[k] - 1
    IN [k \in 1..(cuts + 1) |-> SubSeq(s, From(k), To(k))]

\* Value's Index<&str>: the member of an object, Null for anything else; of
\* two members with one name the map keeps the later.
Value_index(v, key) ==
    LET hits == {i \in 1..Len(v.members) : v.members[i].name = key}
    IN IF v.kind = "object" /\ hits # {}
       THEN v.members[CHOOSE i \in hits : \A j \in hits : j <= i].value
       ELSE JNull

\* The JSON text of a string's content: a quote becomes backslash, quote.
escape(s) ==
    LET parts == [i \in 1..Len(s) |-> IF s[i] = Q THEN <<BS, Q>> ELSE <<s[i]>>]
    IN Join(parts, <<>>)

\* Value::to_string() of a value that holds no object.
scalar_to_string(v) ==
    IF v.kind = "string" THEN <<Q>> \o escape(v.str) \o <<Q>>
    ELSE IF v.kind = "number" THEN v.str
    ELSE <<"null">>

\* Value::to_string(): the compact JSON text.
to_string(v) ==
    IF v.kind = "object"
    THEN <<"{">>
         \o Join([i \in 1..Len(v.members) |->
                     <<Q, v.members[i].name, Q, ":">> \o scalar_to_string(v.members[i].value)],
                 <<",">>)
         \o <<"}">>
    ELSE scalar_to_string(v)

\* str::trim_matches(c): c removed from both ends, as often as it stands there.
trim_matches(s, c) ==
    LET others == {i \in 1..Len(s) : s[i] # c}
    IN IF others = {} THEN <<>>
       ELSE SubSeq(s, CHOOSE i \in others : \A j \in others : i <= j,
                      CHOOSE i \in others : \A j \in others : j <= i)

\* The texts Uuid::parse_str accepts, each with the Uuid it stands for
\* (written in lower-case hyphenated form): hyphenated in either case,
\* simple, braced and URN.
UuidTexts ==
    ("9f4880d8-80ba-4c40-97bc-f7a23c703084" :> "9f4880d8-80ba-4c40-97bc-f7a23c703084")
    @@ ("9F4880D8-80BA-4C40-97BC-F7A23C703084" :> "9f4880d8-80ba-4c40-97bc-f7a23c703084")
    @@ ("9f4880d880ba4c4097bcf7a23c703084" :> "9f4880d8-80ba-4c40-97bc-f7a23c703084")
    @@ ("{9f4880d8-80ba-4c40-97bc-f7a23c703084}" :> "9f4880d8-80ba-4c40-97bc-f7a23c703084")
    @@ ("f645ad92-e38d-4d1a-b510-d1b09a74a8ca" :> "f645ad92-e38d-4d1a-b510-d1b09a74a8ca")
    @@ ("urn:uuid:f645ad92-e38d-4d1a-b510-d1b09a74a8ca" :> "f645ad92-e38d-4d1a-b510-d1b09a74a8ca")

\* Uuid::parse_str(s)
Uuid_parse_str(s) ==
    IF Len(s) = 1 /\ s[1] \in DOMAIN UuidTexts THEN DecodeOk(UuidTexts[s[1]]) ELSE DecodeErr

\* #[derive(Default)] ClientInfo
ClientInfo_default == [uid |-> Nothing, utid |-> Nothing]

\* A variant that takes a missing or unreadable utid for the nil Uuid
\* (unwrap_or_default in place of ?).
decode_client_info_nil_utid(d) ==
    IF d.kind # "string" THEN DecodeErr
    ELSE
    LET bytes == URL_SAFE_NO_PAD_decode(d.str) IN
    IF ~bytes.ok THEN DecodeErr ELSE
    LET client_info_str == from_utf8(Unwrap(bytes.val)) IN
    IF ~client_info_str.ok THEN DecodeErr ELSE
    LET client_info == json_from_str(Unwrap(client_info_str.val)) IN
    IF ~client_info.ok THEN DecodeErr ELSE
    LET uid == Uuid_parse_str(
                   trim_matches(to_string(Value_index(Unwrap(client_info.val), "uid")), Q))
        utid == Uuid_parse_str(
                   trim_matches(to_string(Value_index(Unwrap(client_info.val), "utid")), Q))
    IN IF ~uid.ok THEN DecodeErr
       ELSE DecodeOk([uid |-> uid.val,
                      utid |-> IF utid.ok THEN utid.val
                               ELSE Some("00000000-0000-0000-0000-000000000000")])

\* decode_client_info(d); d is the value of the client_info member.
decode_client_info(d) ==
    IF d.kind # "string" THEN DecodeErr        \* let s: String = deserialize(d)?
    ELSE
    LET bytes == URL_SAFE_NO_PAD_decode(d.str) IN
    IF ~bytes.ok THEN DecodeErr ELSE
    LET client_info_str == from_utf8(Unwrap(bytes.val)) IN
    IF ~client_info_str.ok THEN DecodeErr ELSE
    LET client_info == json_from_str(Unwrap(client_info_str.val)) IN
    IF ~client_info.ok THEN DecodeErr ELSE
    LET uid_str == to_string(Value_index(Unwrap(client_info.val), "uid"))
        uid == Uuid_parse_str(trim_matches(uid_str, Q))
    IN
    IF ~uid.ok THEN DecodeErr ELSE
    LET utid_str == to_string(Value_index(Unwrap(client_info.val), "utid"))
        utid == Uuid_parse_str(trim_matches(utid_str, Q))
    IN
    IF ~utid.ok THEN DecodeErr
    ELSE DecodeOk([uid |-> uid.val, utid |-> utid.val])

\* serde_json::from_str::<IdToken>(text): an object in which name, oid,
\* preferred_username and tid are strings and puid and tenant_region_scope,
\* where present, are strings or null; no field twice; other members are
\* skipped.
json_from_str_IdToken(text) ==
    LET v == text.value
        required == {"name", "oid", "preferred_username", "tid"}
        optional == {"puid", "tenant_region_scope"}
        Hits(f) == {i \in 1..Len(v.members) : v.members[i].name = f}
        Get(f) == v.members[CHOOSE i \in Hits(f) : TRUE].value
        Opt(f) == IF Hits(f) = {} \/ Get(f).kind = "null" THEN Nothing ELSE Some(Get(f).str)
    IN IF /\ text.json
          /\ v.kind = "object"
          /\ \A f \in required : Cardinality(Hits(f)) = 1 /\ Get(f).kind = "string"
          /\ \A f \in optional :
                /\ Cardinality(Hits(f)) <= 1
                /\ Hits(f) # {} => Get(f).kind \in {"string", "null"}
       THEN DecodeOk([name |-> Get("name").str,
                      oid |-> Get("oid").str,
                      preferred_username |-> Get("preferred_username").str,
                      puid |-> Opt("puid"),
                      tenant_region_scope |-> Opt("tenant_region_scope"),
                      tid |-> Get("tid").str])
       ELSE DecodeErr

\* A variant that reads the claims from the only segment when there is no
\* second one.
decode_id_token_single_segment(d) ==
    IF d.kind # "string" THEN DecodeErr
    ELSE
    LET siter == splitn(3, d.str) IN
    IF Len(siter) < 1 THEN DecodeErr ELSE
    LET bytes == URL_SAFE_NO_PAD_decode(IF Len(siter) < 2 THEN siter[1] ELSE siter[2]) IN
    IF ~bytes.ok THEN DecodeErr ELSE
    LET payload_str == from_utf8(Unwrap(bytes.val)) IN
    IF ~payload_str.ok THEN DecodeErr
    ELSE json_from_str_IdToken(Unwrap(payload_str.val))

\* decode_id_token(d); d is the value of the id_token member.
decode_id_token(d) ==
    IF d.kind # "string" THEN DecodeErr        \* let s: String = deserialize(d)?
    ELSE
    LET siter == splitn(3, d.str) IN
    IF Len(siter) < 1 THEN DecodeErr           \* "Failed parsing id_token header"
    ELSE IF Len(siter) < 2 THEN DecodeErr      \* "Failed parsing id_token payload"
    ELSE
    LET bytes == URL_SAFE_NO_PAD_decode(siter[2]) IN
    IF ~bytes.ok THEN DecodeErr ELSE
    LET payload_str == from_utf8(Unwrap(bytes.val)) IN
    IF ~payload_str.ok THEN DecodeErr
    ELSE json_from_str_IdToken(Unwrap(payload_str.val))

\* One call of a nested decoder: which, on what, with what outcome.
Decoded(fn, raw, out) == [fn |-> fn, raw |-> raw, out |-> out]

\* A variant that takes a client_info it cannot decode for an absent one.
UserToken_deserialize_lenient(doc) ==
    LET m == doc.members
        nested == {"id_token", "client_info"}
        Hits(f) == {i \in 1..Len(m) : m[i].name = f}
        Get(f) == m[CHOOSE i \in Hits(f) : TRUE].value
        id_token == IF Hits("id_token") = {} THEN DecodeErr ELSE decode_id_token(Get("id_token"))
        client_info ==
            IF Hits("client_info") = {} THEN DecodeErr ELSE decode_client_info(Get("client_info"))
        calls == SelectSeq([i \in 1..Len(m) |-> i], LAMBDA i : m[i].name \in nested)
        decoded == [k \in 1..Len(calls) |->
                      Decoded(IF m[calls[k]].name = "id_token" THEN "decode_id_token"
                              ELSE "decode_client_info",
                              m[calls[k]].value,
                              IF m[calls[k]].name = "id_token" THEN id_token ELSE client_info)]
    IN IF /\ doc.kind = "object"
          /\ \A f \in {"token_type", "scope", "access_token", "refresh_token"} :
                Cardinality(Hits(f)) = 1 /\ Get(f).kind = "string"
          /\ \A f \in {"expires_in", "ext_expires_in"} :
                Cardinality(Hits(f)) = 1 /\ Get(f).kind = "number"
          /\ Cardinality(Hits("id_token")) = 1 /\ id_token.ok
          /\ Cardinality(Hits("client_info")) <= 1
       THEN [ok |-> TRUE,
             val |-> Some([token_type |-> Get("token_type").str,
                           scope |-> Get("scope").str,
                           expires_in |-> Get("expires_in").str,
                           ext_expires_in |-> Get("ext_expires_in").str,
                           access_token |-> Get("access_token").str,
                           refresh_token |-> Get("refresh_token").str,
                           id_token |-> Unwrap(id_token.val),
                           client_info |-> IF client_info.ok THEN Unwrap(client_info.val)
                                           ELSE ClientInfo_default]),
             decoded |-> decoded]
       ELSE [ok |-> FALSE, val |-> Nothing, decoded |-> decoded]

\* #[derive(Deserialize)] UserToken, reading a JSON object: the members are
\* visited in the order of the document and the first error ends the visit.
\* A member is an error when its name is a field seen before, when its value
\* is not of the field's type, or when the field's deserialize_with function
\* fails; members of other names are skipped.  After the visit a field
\* without a member is an error, except client_info, which is then
\* ClientInfo::default().
UserToken_deserialize(doc) ==
    LET strings == {"token_type", "scope", "access_token", "refresh_token"}
        numbers == {"expires_in", "ext_expires_in"}
        nested == {"id_token", "client_info"}
        \* m: the members; out[i]: what the field's deserialize_with function
        \* makes of member i, for the members it is called on.
        Visit(m, out) ==
            LET Dup(i) == \E j \in 1..(i - 1) : m[j].name = m[i].name
                Bad(i) ==
                    \/ m[i].name \in strings \cup numbers \cup nested /\ Dup(i)
                    \/ m[i].name \in strings /\ m[i].value.kind # "string"
                    \/ m[i].name \in numbers /\ m[i].value.kind # "number"
                    \/ m[i].name \in nested /\ ~out[i].ok
                bad == {i \in 1..Len(m) : Bad(i)}
                last == IF bad = {} THEN Len(m) ELSE CHOOSE i \in bad : \A j \in bad : i <= j
                Called(i) == i <= last /\ m[i].name \in nested /\ ~Dup(i)
                calls == SelectSeq([i \in 1..Len(m) |-> i], Called)
                decoded == [k \in 1..Len(calls) |->
                              Decoded(IF m[calls[k]].name = "id_token" THEN "decode_id_token"
                                      ELSE "decode_client_info",
                                      m[calls[k]].value, out[calls[k]])]
                Hits(f) == {i \in 1..Len(m) : m[i].name = f}
                At1(f) == CHOOSE i \in Hits(f) : TRUE
                Get(f) == m[At1(f)].value
                missing == \E f \in strings \cup numbers \cup {"id_token"} : Hits(f) = {}
            IN IF doc.kind # "object" \/ bad # {} \/ missing
               THEN [ok |-> FALSE, val |-> Nothing,
                     decoded |-> IF doc.kind = "object" THEN decoded ELSE <<>>]
               ELSE [ok |-> TRUE,
                     val |-> Some([token_type |-> Get("token_type").str,
                                   scope |-> Get("scope").str,
                                   expires_in |-> Get("expires_in").str,
                                   ext_expires_in |-> Get("ext_expires_in").str,
                                   access_token |-> Get("access_token").str,
                                   refresh_token |-> Get("refresh_token").str,
                                   id_token |-> Unwrap(out[At1("id_token")].val),
                                   client_info |->
                                       IF Hits("client_info") = {} THEN ClientInfo_default
                                       ELSE Unwrap(out[At1("client_info")].val)]),
                     decoded |-> decoded]
    IN Visit(doc.members,
             [i \in 1..Len(doc.members) |->
                 IF doc.members[i].name = "id_token"
                 THEN decode_id_token(doc.members[i].value)
                 ELSE IF doc.members[i].name = "client_info"
                 THEN decode_client_info(doc.members[i].value)
                 ELSE DecodeErr])

(***************************************************************************)
(* What the authority may answer.  A body either is JSON or is not; a     *)
(* JSON body deserializes into the type ty with the value val, and into   *)
(* no other type.  A body of ty "document" is a JSON object given member  *)
(* by member; whether it deserializes into a UserToken is for             *)
(* UserToken_deserialize to say, and it deserializes into no other type.  *)
(***************************************************************************)
Statuses == {200, 201, 400, 500}

ErrorResponses ==
    {[error |-> "authorization_pending"], [error |-> "invalid_grant"]}

\* The payloads a client_info string may carry.
GoodUid == JString(<<"9f4880d8-80ba-4c40-97bc-f7a23c703084">>)
GoodUtid == JString(<<"f645ad92-e38d-4d1a-b510-d1b09a74a8ca">>)
GoodClientInfo == JObject(<<JMember("uid", GoodUid), JMember("utid", GoodUtid)>>)

ClientInfoPayloads ==
    {GoodClientInfo,
     JObject(<<JMember("uid", JString(<<"9F4880D8-80BA-4C40-97BC-F7A23C703084">>)),
               JMember("utid", GoodUtid)>>),
     JObject(<<JMember("utid", JString(<<"urn:uuid:f645ad92-e38d-4d1a-b510-d1b09a74a8ca">>)),
               JMember("ver", JNumber("1")),
               JMember("uid", JString(<<"9f4880d880ba4c4097bcf7a23c703084">>))>>),
     JObject(<<JMember("uid", GoodUid)>>),
     JObject(<<JMember("utid", GoodUtid)>>),
     JObject(<<>>),
     JObject(<<JMember("uid", JNumber("7")), JMember("utid", GoodUtid)>>),
     JObject(<<JMember("uid", JNull), JMember("utid", GoodUtid)>>),
     JObject(<<JMember("uid", GoodUid), JMember("utid", JString(<<"contoso">>))>>),
     JObject(<<JMember("uid", GoodUid), JMember("utid", JString(<<>>))>>),
     JObject(<<JMember("uid", JString(<<Q, "9f4880d8-80ba-4c40-97bc-f7a23c703084", Q>>)),
               JMember("utid", GoodUtid)>>),
     JObject(<<JMember("uid", GoodUid), JMember("utid", GoodUtid),
               JMember("uid", JString(<<"contoso">>))>>),
     GoodUid}

\* The strings a client_info member may hold: the encodings of the payloads;
\* a good payload padded, and in the standard alphabet; bytes that are not
\* UTF-8; text that is not JSON; the empty string; two runs and a dot.
ClientInfoStrings ==
    {<<B64(JsonBytes(v))>> : v \in ClientInfoPayloads}
    \cup {<<B64Padded(JsonBytes(GoodClientInfo))>>,
          <<B64Standard(JsonBytes(GoodClientInfo))>>,
          <<B64(BinaryBytes)>>,
          <<B64(ProseBytes)>>,
          <<>>,
          <<B64(JsonBytes(GoodClientInfo)), Dot, B64(JsonBytes(GoodClientInfo))>>}

ClientInfoValues == {JString(s) : s \in ClientInfoStrings} \cup {JNull, JNumber("1")}

\* The claims an id_token may carry.
GoodClaims ==
    JObject(<<JMember("name", JString(<<"Alice">>)),
              JMember("oid", JString(<<"9f4880d8-80ba-4c40-97bc-f7a23c703084">>)),
              JMember("preferred_username", JString(<<"alice@contoso.com">>)),
              JMember("tid", JString(<<"f645ad92-e38d-4d1a-b510-d1b09a74a8ca">>))>>)

IdTokenClaims ==
    {GoodClaims,
     JObject(<<JMember("tid", JString(<<"f645ad92-e38d-4d1a-b510-d1b09a74a8ca">>)),
               JMember("puid", JString(<<"10032001">>)),
               JMember("tenant_region_scope", JNull),
               JMember("iat", JNumber("1700000000")),
               JMember("name", JString(<<"Alice">>)),
               JMember("oid", JString(<<"9f4880d8-80ba-4c40-97bc-f7a23c703084">>)),
               JMember("preferred_username", JString(<<"alice@contoso.com">>))>>),
     JObject(<<JMember("name", JString(<<"Alice">>)),
               JMember("oid", JString(<<"9f4880d8-80ba-4c40-97bc-f7a23c703084">>)),
               JMember("preferred_username", JString(<<"alice@contoso.com">>))>>),
     JObject(<<JMember("name", JNumber("7")),
               JMember("oid", JString(<<"9f4880d8-80ba-4c40-97bc-f7a23c703084">>)),
               JMember("preferred_username", JString(<<"alice@contoso.com">>)),
               JMember("tid", JString(<<"f645ad92-e38d-4d1a-b510-d1b09a74a8ca">>))>>),
     JString(<<"Alice">>)}

JwsHeader == B64(JsonBytes(JObject(<<JMember("alg", JString(<<"RS256">>))>>)))
JwsSignature == Word("c2lnbmF0dXJl")

\* The strings an id_token member may hold: three segments, two, four; an
\* empty header; no dot at all (the empty string, a header alone, the claims
\* alone); an empty payload segment; a payload that is padded, not UTF-8 or
\* not JSON.
IdTokenStrings ==
    {<<JwsHeader, Dot, B64(JsonBytes(c)), Dot, JwsSignature>> : c \in IdTokenClaims}
    \cup {<<JwsHeader, Dot, B64(JsonBytes(GoodClaims))>>,
          <<JwsHeader, Dot, B64(JsonBytes(GoodClaims)), Dot, JwsSignature, Dot, Word("x")>>,
          <<Dot, B64(JsonBytes(GoodClaims)), Dot, JwsSignature>>,
          <<>>,
          <<JwsHeader>>,
          <<B64(JsonBytes(GoodClaims))>>,
          <<JwsHeader, Dot>>,
          <<JwsHeader, Dot, Dot, JwsSignature>>,
          <<JwsHeader, Dot, B64Padded(JsonBytes(GoodClaims)), Dot, JwsSignature>>,
          <<JwsHeader, Dot, B64(BinaryBytes), Dot, JwsSignature>>,
          <<JwsHeader, Dot, B64(ProseBytes), Dot, JwsSignature>>}

IdTokenValues == {JString(s) : s \in IdTokenStrings} \cup {JNull}

GoodIdToken == JString(<<JwsHeader, Dot, B64(JsonBytes(GoodClaims)), Dot, JwsSignature>>)
GoodClientInfoValue == JString(<<B64(JsonBytes(GoodClientInfo))>>)

\* The members of a token response other than id_token and client_info.
TokenMembers ==
    <<JMember("token_type", JString(<<Word("Bearer")>>)),
      JMember("scope", JString(<<Word("openid profile offline_access")>>)),
      JMember("expires_in", JNumber("3600")),
      JMember("ext_expires_in", JNumber("3600")),
      JMember("access_token", JString(<<Word("at-1")>>)),
      JMember("refresh_token", JString(<<Word("rt-1")>>))>>

\* The JSON objects a token endpoint may answer with: every id_token with a
\* good client_info, every client_info with a good id_token, no client_info,
\* both unreadable in either order, and objects that lack a member, repeat
\* one or give one the wrong type.
UserTokenDocuments ==
    {JObject(TokenMembers \o <<JMember("id_token", i), JMember("client_info", GoodClientInfoValue)>>)
        : i \in IdTokenValues}
    \cup {JObject(TokenMembers \o <<JMember("id_token", GoodIdToken), JMember("client_info", c)>>)
             : c \in ClientInfoValues}
    \cup {JObject(TokenMembers \o <<JMember("id_token", GoodIdToken)>>),
          JObject(TokenMembers \o <<JMember("id_token", JString(<<>>))>>),
          JObject(TokenMembers \o <<JMember("id_token", JString(<<JwsHeader>>)),
                                    JMember("client_info", JString(<<B64(ProseBytes)>>))>>),
          JObject(<<JMember("client_info", JString(<<B64(ProseBytes)>>)),
                    JMember("id_token", JString(<<JwsHeader>>))>> \o TokenMembers),
          JObject(TokenMembers \o <<JMember("client_info", GoodClientInfoValue)>>),
          JObject(SubSeq(TokenMembers, 1, 4)
                  \o <<JMember("id_token", GoodIdToken),
                       JMember("client_info", GoodClientInfoValue)>>),
          JObject(TokenMembers \o <<JMember("id_token", GoodIdToken),
                                    JMember("id_token", GoodIdToken)>>),
          JObject(<<JMember("token_type", JNumber("1"))>> \o Tail(TokenMembers)
                  \o <<JMember("id_token", GoodIdToken)>>)}

\* The documents every status is tried with.
FewUserTokenDocuments ==
    {JObject(TokenMembers \o <<JMember("id_token", GoodIdToken),
                               JMember("client_info", GoodClientInfoValue)>>),
     JObject(TokenMembers \o <<JMember("id_token", GoodIdToken)>>)}

DeviceAuthorizationResponses ==
    {[device_code |-> <<"DC", "+", "A">>, user_code |-> <<"UC-A">>],
     [device_code |-> <<"DC", "+", "B">>, user_code |-> <<"UC-B">>]}

PrimaryRefreshTokens ==
    {[refresh_token |-> "prt-1", session_key_jwe |-> "jwe-1", id_token |-> "idt-1"]}

Body(isJson, ty, val) == [json |-> isJson, ty |-> ty, val |-> val]

NotJsonBody == Body(FALSE, NoTag, Nothing)
OtherJsonBody == Body(TRUE, NoTag, Nothing)

ErrorBodies == {Body(TRUE, "ErrorResponse", Some(e)) : e \in ErrorResponses}

CommonBodies == {NotJsonBody, OtherJsonBody} \cup ErrorBodies

TransportFailure == [failed |-> TRUE, status |-> 0, body |-> NotJsonBody]

Response(status, body) == [failed |-> FALSE, status |-> status, body |-> body]

ResponsesWith(bodies) ==
    {TransportFailure} \cup {Response(s, b) : s \in Statuses, b \in bodies}

\* Every status with a few token documents, and 200 with all of them.
TokenResponses ==
    ResponsesWith(CommonBodies \cup {Body(TRUE, "document", Some(d)) : d \in FewUserTokenDocuments})
    \cup {Response(200, Body(TRUE, "document", Some(d))) : d \in UserTokenDocuments}

DeviceCodeResponses ==
    ResponsesWith(CommonBodies \cup
        {Body(TRUE, "DeviceAuthorizationResponse", Some(v)) : v \in DeviceAuthorizationResponses})

\* The nonce endpoint answers with the next nonce while it has one to issue.
NonceResponses(n) ==
    ResponsesWith(CommonBodies \cup
        (IF n < MaxNonces THEN {Body(TRUE, "Nonce", Some([nonce |-> NonceStr(n + 1)]))} ELSE {}))

PrtResponses ==
    ResponsesWith(CommonBodies \cup
        {Body(TRUE, "PrimaryRefreshToken", Some(v)) : v \in PrimaryRefreshTokens})

\* Fewer answers of each endpoint, for where the answers are not what is
\* examined: a transport failure, 400 with each ErrorResponse, and 200 with
\* what the endpoint is there to give.
FewAnswers(responses, ty) ==
    {r \in responses :
        \/ r.failed
        \/ r.status = 400 /\ r.body.ty = "ErrorResponse"
        \/ r.status = 200 /\ r.body.ty = ty}

FewTokenResponses ==
    FewAnswers(ResponsesWith(CommonBodies \cup
                   {Body(TRUE, "document", Some(d)) : d \in FewUserTokenDocuments}),
               "document")
FewDeviceCodeResponses == FewAnswers(DeviceCodeResponses, "DeviceAuthorizationResponse")
FewNonceResponses(n) == FewAnswers(NonceResponses(n), "Nonce")
FewPrtResponses == FewAnswers(PrtResponses, "PrimaryRefreshToken")

(***************************************************************************)
(* Request construction.                                                   *)
(***************************************************************************)
\* A variant of all_scopes that drops the caller's scopes already in the baseline.
all_scopes_dedup(scopes) ==
    << <<"openid">>, <<"profile">>, <<"offline_access">> >>
    \o SelectSeq(scopes, LAMBDA x : x \notin {<<"openid">>, <<"profile">>, <<"offline_access">>})

\* let mut all_scopes = vec!["openid", "profile", "offline_access"];
\* all_scopes.extend(scopes);
all_scopes(scopes) == << <<"openid">>, <<"profile">>, <<"offline_access">> >> \o scopes

\* all_scopes.join(" ")
scopes_str(scopes) == Join(all_scopes(scopes), <<" ">>)

\* params.iter().map(|(k, v)| format!("{}={}", k, url_encode(v))).collect().join("&")
encoded_payload(params) ==
    Join([i \in 1..Len(params) |-> params[i][1] \o <<"=">> \o url_encode(params[i][2])],
         <<"&">>)

\* params.iter().map(|(k, v)| format!("{}={}", k, v)).collect().join("&")
plain_payload(params) ==
    Join([i \in 1..Len(params) |-> params[i][1] \o <<"=">> \o params[i][2]], <<"&">>)

Https == <<"https", ":", "/", "/">>

\* format!("https://{}/{}/oauth2/v2.0/token", authority_host, tenant_id)
token_url(app) ==
    Https \o app.authority_host \o <<"/">> \o app.tenant_id
          \o <<"/", "oauth2", "/", "v2.0", "/", "token">>

\* format!("https://{}/{}/oauth2/v2.0/devicecode", authority_host, tenant_id)
devicecode_url(app) ==
    Https \o app.authority_host \o <<"/">> \o app.tenant_id
          \o <<"/", "oauth2", "/", "v2.0", "/", "devicecode">>

\* A variant that asks the configured tenant for the nonce.
nonce_url_tenanted(app) ==
    Https \o app.authority_host \o <<"/">> \o app.tenant_id \o <<"/", "oauth2", "/", "token">>

\* format!("https://{}/common/oauth2/token", authority_host)
nonce_url(app) ==
    Https \o app.authority_host \o <<"/", "common", "/", "oauth2", "/", "token">>

\* format!("https://{}/{}/oauth2/token", authority_host, tenant_id)
prt_url(app) ==
    Https \o app.authority_host \o <<"/">> \o app.tenant_id
          \o <<"/", "oauth2", "/", "token">>

password_params(app, username, password, scopes) ==
    << << <<"client_id">>, app.client_id >>,
       << <<"scope">>, scopes_str(scopes) >>,
       << <<"username">>, username >>,
       << <<"password">>, password >>,
       << <<"grant_type">>, <<"password">> >>,
       << <<"client_info">>, <<"1">> >> >>

device_init_params(app, scopes) ==
    << << <<"client_id">>, app.client_id >>,
       << <<"scope">>, scopes_str(scopes) >> >>

DeviceCodeGrant ==
    <<"urn", ":", "ietf", ":", "params", ":", "oauth", ":", "grant-type", ":", "device_code">>

device_flow_params(app, flow) ==
    << << <<"client_id">>, app.client_id >>,
       << <<"grant_type">>, DeviceCodeGrant >>,
       << <<"device_code">>, flow.device_code >> >>

silent_params(app, scopes, refresh_token) ==
    << << <<"client_id">>, app.client_id >>,
       << <<"scope">>, scopes_str(scopes) >>,
       << <<"grant_type">>, <<"refresh_token">> >>,
       << <<"refresh_token">>, refresh_token >>,
       << <<"client_info">>, <<"1">> >> >>

\* .body("grant_type=srv_challenge")
nonce_body == <<"grant_type", "=", "srv_challenge">>

JwtBearerGrant ==
    <<"urn", ":", "ietf", ":", "params", ":", "oauth", ":", "grant-type", ":", "jwt-bearer">>

prt_params(compact) ==
    << << <<"windows_api_version">>, <<"2.0">> >>,
       << <<"grant_type">>, JwtBearerGrant >>,
       << <<"request">>, compact >>,
       << <<"client_info">>, <<"1">> >>,
       << <<"tgt">>, <<"true">> >> >>

(***************************************************************************)
(* The PRT payloads, their serialization and the JWS around them.         *)
(***************************************************************************)
\* A variant of the payload that carries the configured client id.
UsernamePasswordAuthenticationPayload_app_client(username, password, request_nonce, os) ==
    [client_id |-> config.client_id,
     request_nonce |-> request_nonce,
     scope |-> <<"openid", " ", "aza", " ", "ugs">>,
     win_ver |-> os,
     grant_type |-> <<"password">>,
     username |-> username,
     password |-> password]

\* UsernamePasswordAuthenticationPayload::new; os is what OsRelease::new gave.
UsernamePasswordAuthenticationPayload_new(username, password, request_nonce, os) ==
    [client_id |-> BROKER_CLIENT_IDENT,
     request_nonce |-> request_nonce,
     scope |-> <<"openid", " ", "aza", " ", "ugs">>,
     win_ver |-> os,
     grant_type |-> <<"password">>,
     username |-> username,
     password |-> password]

\* RefreshTokenAuthenticationPayload::new
RefreshTokenAuthenticationPayload_new(refresh_token, request_nonce, os) ==
    [client_id |-> BROKER_CLIENT_IDENT,
     request_nonce |-> request_nonce,
     scope |-> <<"openid", " ", "aza", " ", "ugs">>,
     win_ver |-> os,
     grant_type |-> <<"refresh_token">>,
     refresh_token |-> refresh_token]

\* One member of a serialized JSON object: "name": "str", or "name": null.
Member(name, str) == [name |-> name, null |-> FALSE, str |-> str]
OptionMember(name, opt) ==
    [name |-> name, null |-> ~IsSome(opt), str |-> IF IsSome(opt) THEN Unwrap(opt) ELSE <<>>]

\* serde_json::to_vec of the derived Serialize: every field, in declaration
\* order; an Option that holds nothing is written as null.
to_vec(p) ==
    << Member("client_id", p.client_id),
       Member("request_nonce", p.request_nonce),
       Member("scope", p.scope),
       OptionMember("win_ver", p.win_ver),
       Member("grant_type", p.grant_type) >>
    \o (IF "username" \in DOMAIN p
        THEN << Member("username", p.username), Member("password", p.password) >>
        ELSE << Member("refresh_token", p.refresh_token) >>)

\* JwsBuilder::from(bytes).set_typ(Some("JWT")).build()
JwsBuilder(bytes) == [typ |-> "JWT", payload |-> bytes]

\* The outcome of jws_tpm_signer.sign(jwt) when the key store signs.
Signed(jwt, id_key) == [jws |-> jwt, key |-> id_key]

\* format!("{}", signed_jwt): the compact serialization, base64url text and
\* dots, hence one word; the word is named after what it encodes.
Compact(signed_jwt) ==
    LET payload == signed_jwt.jws.payload
        text(m) == m.name \o "=" \o (IF m.null THEN "null" ELSE Concat(m.str)) \o ";"
    IN << "jws." \o signed_jwt.jws.typ \o "."
          \o Concat([k \in 1..Len(payload) |-> text(payload[k])])
          \o "." \o signed_jwt.key >>

(***************************************************************************)
(* Response handling, one definition per call site.  Each gives the       *)
(* Result and the types resp.json() was asked to produce, in order.       *)
(***************************************************************************)
Outcome(res, parsed) == [res |-> res, parsed |-> parsed]

\* StatusCode::is_success
is_success(status) == status >= 200 /\ status <= 299

\* resp.json::<T>().await
json(body, T) ==
    IF body.json /\ body.ty = "document" /\ T = "UserToken"
    THEN LET token == UserToken_deserialize(Unwrap(body.val))
         IN IF token.ok THEN [ok |-> TRUE, val |-> Unwrap(token.val)]
            ELSE [ok |-> FALSE, val |-> Nothing]
    ELSE IF body.json /\ body.ty = T THEN [ok |-> TRUE, val |-> Unwrap(body.val)]
    ELSE [ok |-> FALSE, val |-> Nothing]

\* The nested decoders resp.json::<T>() ran on the body, in order.
json_decoded(body, parsed) ==
    IF parsed = <<"UserToken">> /\ body.json /\ body.ty = "document"
    THEN UserToken_deserialize(Unwrap(body.val)).decoded
    ELSE <<>>

acquire_token_by_username_password_response(r) ==
    IF r.failed THEN Outcome(Err("RequestFailed"), <<>>)
    ELSE IF is_success(r.status)
    THEN LET token == json(r.body, "UserToken")
         IN Outcome(IF token.ok THEN Ok(token.val) ELSE Err("InvalidJson"),
                    <<"UserToken">>)
    ELSE LET json_resp == json(r.body, "ErrorResponse")
         IN Outcome(IF json_resp.ok THEN AcquireTokenFailed(json_resp.val)
                    ELSE Err("InvalidJson"),
                    <<"ErrorResponse">>)

initiate_device_flow_response(r) ==
    IF r.failed THEN Outcome(Err("RequestFailed"), <<>>)
    ELSE IF is_success(r.status)
    THEN LET json_resp == json(r.body, "DeviceAuthorizationResponse")
         IN Outcome(IF json_resp.ok THEN Ok(json_resp.val) ELSE Err("InvalidJson"),
                    <<"DeviceAuthorizationResponse">>)
    ELSE LET json_resp == json(r.body, "ErrorResponse")
         IN Outcome(IF json_resp.ok THEN AcquireTokenFailed(json_resp.val)
                    ELSE Err("InvalidJson"),
                    <<"ErrorResponse">>)

\* A variant that, when a 2xx body is no UserToken, tries it as an
\* ErrorResponse before giving up.
acquire_token_by_device_flow_response_fallback(r) ==
    IF r.failed THEN Outcome(Err("RequestFailed"), <<>>)
    ELSE LET token == json(r.body, "UserToken")
             json_resp == json(r.body, "ErrorResponse")
         IN IF is_success(r.status) /\ token.ok
            THEN Outcome(Ok(token.val), <<"UserToken">>)
            ELSE Outcome(IF json_resp.ok THEN AcquireTokenFailed(json_resp.val)
                         ELSE Err("InvalidJson"),
                         IF is_success(r.status) THEN <<"UserToken", "ErrorResponse">>
                         ELSE <<"ErrorResponse">>)

acquire_token_by_device_flow_response(r) ==
    IF r.failed THEN Outcome(Err("RequestFailed"), <<>>)
    ELSE IF is_success(r.status)
    THEN LET token == json(r.body, "UserToken")
         IN Outcome(IF token.ok THEN Ok(token.val) ELSE Err("InvalidJson"),
                    <<"UserToken">>)
    ELSE LET json_resp == json(r.body, "ErrorResponse")
         IN Outcome(IF json_resp.ok THEN AcquireTokenFailed(json_resp.val)
                    ELSE Err("InvalidJson"),
                    <<"ErrorResponse">>)

\* A variant that reads the body before looking at the send result.
acquire_token_silent_response_parsing(r) ==
    IF r.failed \/ is_success(r.status)
    THEN LET token == json(r.body, "UserToken")
         IN Outcome(IF token.ok THEN Ok(token.val) ELSE Err("InvalidJson"), <<"UserToken">>)
    ELSE LET json_resp == json(r.body, "ErrorResponse")
         IN Outcome(IF json_resp.ok THEN AcquireTokenFailed(json_resp.val)
                    ELSE Err("InvalidJson"),
                    <<"ErrorResponse">>)

acquire_token_silent_response(r) ==
    IF r.failed THEN Outcome(Err("RequestFailed"), <<>>)
    ELSE IF is_success(r.status)
    THEN LET token == json(r.body, "UserToken")
         IN Outcome(IF token.ok THEN Ok(token.val) ELSE Err("InvalidJson"),
                    <<"UserToken">>)
    ELSE LET json_resp == json(r.body, "ErrorResponse")
         IN Outcome(IF json_resp.ok THEN AcquireTokenFailed(json_resp.val)
                    ELSE Err("InvalidJson"),
                    <<"ErrorResponse">>)

\* A variant that keeps the first nonce it was ever given.
request_nonce_response_cached(r) ==
    IF r.failed THEN Outcome(Err("RequestFailed"), <<>>)
    ELSE IF is_success(r.status)
    THEN LET json_resp == json(r.body, "Nonce")
         IN Outcome(IF json_resp.ok THEN Ok(NonceStr(1)) ELSE Err("InvalidJson"), <<"Nonce">>)
    ELSE LET json_resp == json(r.body, "ErrorResponse")
         IN Outcome(IF json_resp.ok THEN AcquireTokenFailed(json_resp.val)
                    ELSE Err("InvalidJson"),
                    <<"ErrorResponse">>)

request_nonce_response(r) ==
    IF r.failed THEN Outcome(Err("RequestFailed"), <<>>)
    ELSE IF is_success(r.status)
    THEN LET json_resp == json(r.body, "Nonce")
         IN Outcome(IF json_resp.ok THEN Ok(json_resp.val.nonce) ELSE Err("InvalidJson"),
                    <<"Nonce">>)
    ELSE LET json_resp == json(r.body, "ErrorResponse")
         IN Outcome(IF json_resp.ok THEN AcquireTokenFailed(json_resp.val)
                    ELSE Err("InvalidJson"),
                    <<"ErrorResponse">>)

\* A variant that falls back to an empty ErrorResponse (unwrap_or_default).
acquire_user_prt_jwt_response_defaulting(r) ==
    IF r.failed THEN Outcome(Err("RequestFailed"), <<>>)
    ELSE IF is_success(r.status)
    THEN LET json_resp == json(r.body, "PrimaryRefreshToken")
         IN Outcome(IF json_resp.ok THEN Ok(json_resp.val) ELSE Err("InvalidJson"),
                    <<"PrimaryRefreshToken">>)
    ELSE LET json_resp == json(r.body, "ErrorResponse")
         IN Outcome(IF json_resp.ok THEN AcquireTokenFailed(json_resp.val)
                    ELSE AcquireTokenFailed([error |-> ""]),
                    <<"ErrorResponse">>)

acquire_user_prt_jwt_response(r) ==
    IF r.failed THEN Outcome(Err("RequestFailed"), <<>>)
    ELSE IF is_success(r.status)
    THEN LET json_resp == json(r.body, "PrimaryRefreshToken")
         IN Outcome(IF json_resp.ok THEN Ok(json_resp.val) ELSE Err("InvalidJson"),
                    <<"PrimaryRefreshToken">>)
    ELSE LET json_resp == json(r.body, "ErrorResponse")
         IN Outcome(IF json_resp.ok THEN AcquireTokenFailed(json_resp.val)
                    ELSE Err("InvalidJson"),
                    <<"ErrorResponse">>)

(***************************************************************************)
(* The state of one call.                                                  *)
(***************************************************************************)
NoCall ==
    [entry |-> NoTag, username |-> <<>>, password |-> <<>>, scopes |-> <<>>,
     refresh_token |-> <<>>, flow |-> Nothing, moved |-> FALSE, id_key |-> "",
     epoch |-> 0]

\* epoch is not a binding of the program: it records how many nonces the
\* authority had issued when the call began.

NoLocal == [nonce |-> Nothing, jwt |-> Nothing]

NoFlow == [code |-> Nothing, polls |-> 0]

\* What a call does, in order: "post" (a request handed to the transport),
\* "resp" (the transport's answer), "json" (resp.json::<tag>() called),
\* "payload" (a PRT payload built), "signer_new" and "sign" (the key store
\* called; tag is "ok" or "err"), "decode" (a nested decoder, named by tag,
\* called on raw with the outcome out).
Ev(ev) ==
    [ev |-> ev, url |-> <<>>, body |-> <<>>, jws |-> Nothing, resp |-> Nothing,
     payload |-> Nothing, tag |-> "", raw |-> Nothing, out |-> Nothing]

PostEv(url, body) == [Ev("post") EXCEPT !.url = url, !.body = body]
JwsPostEv(url, body, signed_jwt) == [PostEv(url, body) EXCEPT !.jws = Some(signed_jwt)]
RespEv(r) == [Ev("resp") EXCEPT !.resp = Some(r)]
JsonEvs(parsed) == [i \in 1..Len(parsed) |-> [Ev("json") EXCEPT !.tag = parsed[i]]]
PayloadEv(p) == [Ev("payload") EXCEPT !.payload = Some(p)]
TpmEv(ev, ok) == [Ev(ev) EXCEPT !.tag = IF ok THEN "ok" ELSE "err"]
DecodeEvs(decoded) ==
    [i \in 1..Len(decoded) |->
        [Ev("decode") EXCEPT !.tag = decoded[i].fn, !.raw = Some(decoded[i].raw),
                             !.out = Some(decoded[i].out)]]

StandardEntries ==
    {"acquire_token_by_username_password", "acquire_token_for_device_enrollment",
     "initiate_device_flow", "acquire_token_by_device_flow", "acquire_token_silent"}

PrtEntries == {"acquire_user_prt_by_username_password", "acquire_user_prt_silent"}

\* Other arguments PublicClientApplication::new may be given.
Tenants == {AppTenant, <<"f645ad92-e38d-4d1a-b510-d1b09a74a8ca">>, <<"common">>}
Hosts == {AppHost, <<"login.microsoftonline.us">>}

\* No call has been made yet.
NoCalls ==
    /\ pc = [t \in Tasks |-> "idle"]
    /\ call = [t \in Tasks |-> NoCall]
    /\ local = [t \in Tasks |-> NoLocal]
    /\ log = [t \in Tasks |-> <<>>]
    /\ result = [t \in Tasks |-> NoResult]
    /\ held = [t \in Tasks |-> Nothing]
    /\ flows = [t \in Tasks |-> NoFlow]
    /\ issued = 0

InitTenants ==
    /\ config \in {PublicClientApplication_new(AppClientId, tenant_id, authority_host) :
                       tenant_id \in Tenants, authority_host \in Hosts}
    /\ NoCalls

Init ==
    /\ config = PublicClientApplication_new(AppClientId, AppTenant, AppHost)
    /\ pc = [t \in Tasks |-> "idle"]
    /\ call = [t \in Tasks |-> NoCall]
    /\ local = [t \in Tasks |-> NoLocal]
    /\ log = [t \in Tasks |-> <<>>]
    /\ result = [t \in Tasks |-> NoResult]
    /\ held = [t \in Tasks |-> Nothing]
    /\ flows = [t \in Tasks |-> NoFlow]
    /\ issued = 0

(***************************************************************************)
(* The standard grants: the call up to .send().await, then the answer.    *)
(***************************************************************************)
\* A call begins: its arguments are bound and its first request is sent.
Begin(t, c, first_pc, url, body) ==
    /\ pc[t] = "idle"
    /\ call' = [call EXCEPT ![t] = [c EXCEPT !.epoch = issued]]
    /\ local' = [local EXCEPT ![t] = NoLocal]
    /\ log' = [log EXCEPT ![t] = <<PostEv(url, body)>>]
    /\ result' = [result EXCEPT ![t] = NoResult]
    /\ pc' = [pc EXCEPT ![t] = first_pc]

\* A call returns: the answer is logged and the Result set.
Finish(t, r, out) ==
    /\ log' = [log EXCEPT ![t] = @ \o <<RespEv(r)>> \o JsonEvs(out.parsed)
                                    \o DecodeEvs(json_decoded(r.body, out.parsed))]
    /\ result' = [result EXCEPT ![t] = out.res]
    /\ pc' = [pc EXCEPT ![t] = "done"]

acquire_token_by_username_password(t, username, password, scopes) ==
    /\ Begin(t, [NoCall EXCEPT !.entry = "acquire_token_by_username_password",
                               !.username = username, !.password = password,
                               !.scopes = scopes],
             "sent", token_url(config),
             encoded_payload(password_params(config, username, password, scopes)))
    /\ UNCHANGED <<config, held, flows, issued>>

\* The scope list is vec![&format!("{}/.default", DRS_APP_ID)].
acquire_token_for_device_enrollment(t, username, password) ==
    LET drs_scope == DRS_APP_ID \o <<"/", ".default">> IN
    /\ Begin(t, [NoCall EXCEPT !.entry = "acquire_token_for_device_enrollment",
                               !.username = username, !.password = password,
                               !.scopes = <<drs_scope>>],
             "sent", token_url(config),
             encoded_payload(password_params(config, username, password, <<drs_scope>>)))
    /\ UNCHANGED <<config, held, flows, issued>>

acquire_token_by_username_password_returns(t, r) ==
    /\ pc[t] = "sent"
    /\ call[t].entry \in {"acquire_token_by_username_password",
                          "acquire_token_for_device_enrollment"}
    /\ Finish(t, r, acquire_token_by_username_password_response(r))
    /\ UNCHANGED <<config, call, local, held, flows, issued>>

initiate_device_flow(t, scopes) ==
    /\ Begin(t, [NoCall EXCEPT !.entry = "initiate_device_flow", !.scopes = scopes],
             "sent", devicecode_url(config),
             encoded_payload(device_init_params(config, scopes)))
    /\ UNCHANGED <<config, held, flows, issued>>

initiate_device_flow_returns(t, r) ==
    /\ pc[t] = "sent"
    /\ call[t].entry = "initiate_device_flow"
    /\ Finish(t, r, initiate_device_flow_response(r))
    /\ UNCHANGED <<config, call, local, held, flows, issued>>

\* flow: DeviceAuthorizationResponse is taken by value: the caller either
\* moves its binding into the call or passes flow.clone() and keeps it.
acquire_token_by_device_flow(t, moved) ==
    /\ IsSome(held[t])
    /\ flows[t].polls < MaxPolls
    /\ Begin(t, [NoCall EXCEPT !.entry = "acquire_token_by_device_flow",
                               !.flow = held[t], !.moved = moved],
             "sent", token_url(config),
             encoded_payload(device_flow_params(config, Unwrap(held[t]))))
    /\ held' = [held EXCEPT ![t] = IF moved THEN Nothing ELSE @]
    /\ UNCHANGED <<config, flows, issued>>

\* The authority's answer while the user has not yet authorized.
IsPending(res) ==
    res.kind = "AcquireTokenFailed" /\ Unwrap(res.val).error = "authorization_pending"

\* A variant that spends the caller's response on a pending poll.
acquire_token_by_device_flow_returns_consuming(t, r) ==
    LET out == acquire_token_by_device_flow_response(r) IN
    /\ pc[t] = "sent"
    /\ call[t].entry = "acquire_token_by_device_flow"
    /\ Finish(t, r, out)
    /\ flows' = [flows EXCEPT ![t].polls = IF IsPending(out.res) THEN @ + 1 ELSE @]
    /\ held' = [held EXCEPT ![t] = IF IsPending(out.res) THEN Nothing ELSE @]
    /\ UNCHANGED <<config, call, local, issued>>

acquire_token_by_device_flow_returns(t, r) ==
    LET out == acquire_token_by_device_flow_response(r) IN
    /\ pc[t] = "sent"
    /\ call[t].entry = "acquire_token_by_device_flow"
    /\ Finish(t, r, out)
    /\ flows' = [flows EXCEPT ![t].polls = IF IsPending(out.res) THEN @ + 1 ELSE @]
    /\ UNCHANGED <<config, call, local, held, issued>>

acquire_token_silent(t, scopes, refresh_token) ==
    /\ Begin(t, [NoCall EXCEPT !.entry = "acquire_token_silent", !.scopes = scopes,
                               !.refresh_token = refresh_token],
             "sent", token_url(config),
             encoded_payload(silent_params(config, scopes, refresh_token)))
    /\ UNCHANGED <<config, held, flows, issued>>

\* A variant that sends the request once more after a transport failure.
acquire_token_silent_returns_retrying(t, r) ==
    /\ pc[t] = "sent"
    /\ call[t].entry = "acquire_token_silent"
    /\ IF r.failed /\ Len(log[t]) < 3
       THEN /\ log' = [log EXCEPT ![t] = @ \o <<RespEv(r), log[t][1]>>]
            /\ UNCHANGED <<pc, result>>
       ELSE Finish(t, r, acquire_token_silent_response(r))
    /\ UNCHANGED <<config, call, local, held, flows, issued>>

acquire_token_silent_returns(t, r) ==
    /\ pc[t] = "sent"
    /\ call[t].entry = "acquire_token_silent"
    /\ Finish(t, r, acquire_token_silent_response(r))
    /\ UNCHANGED <<config, call, local, held, flows, issued>>

\* The caller takes the Result; a DeviceAuthorizationResponse it is given
\* becomes the flow it polls.
Return(t) ==
    LET got == call[t].entry = "initiate_device_flow" /\ result[t].ok IN
    /\ pc[t] = "done"
    /\ pc' = [pc EXCEPT ![t] = "idle"]
    /\ held' = [held EXCEPT ![t] = IF got THEN result[t].val ELSE @]
    /\ flows' = [flows EXCEPT ![t] =
                    IF got THEN [code |-> Some(Unwrap(result[t].val).device_code), polls |-> 0]
                    ELSE @]
    /\ call' = [call EXCEPT ![t] = NoCall]
    /\ local' = [local EXCEPT ![t] = NoLocal]
    /\ log' = [log EXCEPT ![t] = <<>>]
    /\ result' = [result EXCEPT ![t] = NoResult]
    /\ UNCHANGED <<config, issued>>

(***************************************************************************)
(* The PRT protocol.                                                       *)
(***************************************************************************)
\* A variant that names the user in the nonce request.
acquire_user_prt_by_username_password_naming_user(t, username, password, id_key) ==
    /\ Begin(t, [NoCall EXCEPT !.entry = "acquire_user_prt_by_username_password",
                               !.username = username, !.password = password,
                               !.id_key = id_key],
             "nonce_sent", nonce_url(config),
             nonce_body \o <<"&", "username", "=">> \o url_encode(username))
    /\ UNCHANGED <<config, held, flows, issued>>

\* The entry point up to request_nonce's .send().await
acquire_user_prt_by_username_password(t, username, password, id_key) ==
    /\ Begin(t, [NoCall EXCEPT !.entry = "acquire_user_prt_by_username_password",
                               !.username = username, !.password = password,
                               !.id_key = id_key],
             "nonce_sent", nonce_url(config), nonce_body)
    /\ UNCHANGED <<config, held, flows, issued>>

acquire_user_prt_silent(t, refresh_token, id_key) ==
    /\ Begin(t, [NoCall EXCEPT !.entry = "acquire_user_prt_silent",
                               !.refresh_token = refresh_token, !.id_key = id_key],
             "nonce_sent", nonce_url(config), nonce_body)
    /\ UNCHANGED <<config, held, flows, issued>>

\* A variant that goes on with an empty nonce when the request failed
\* (unwrap_or_default in place of ?).
request_nonce_returns_defaulting(t, r) ==
    LET out == request_nonce_response(r) IN
    /\ pc[t] = "nonce_sent"
    /\ r \in NonceResponses(issued)
    /\ issued' = IF ~r.failed /\ r.body.ty = "Nonce" THEN issued + 1 ELSE issued
    /\ log' = [log EXCEPT ![t] = @ \o <<RespEv(r)>> \o JsonEvs(out.parsed)]
    /\ local' = [local EXCEPT ![t].nonce = IF out.res.ok THEN out.res.val ELSE Some(<<>>)]
    /\ pc' = [pc EXCEPT ![t] = "nonce_ok"]
    /\ UNCHANGED <<config, call, result, held, flows>>

\* A variant that keeps the nonce in a field of the shared
\* PublicClientApplication, where every call in flight reads it.
request_nonce_returns_into_shared_field(t, r) ==
    LET out == request_nonce_response(r) IN
    /\ pc[t] = "nonce_sent"
    /\ r \in NonceResponses(issued)
    /\ issued' = IF ~r.failed /\ r.body.ty = "Nonce" THEN issued + 1 ELSE issued
    /\ log' = [log EXCEPT ![t] = @ \o <<RespEv(r)>> \o JsonEvs(out.parsed)]
    /\ IF out.res.ok
       THEN /\ local' = [u \in Tasks |-> [local[u] EXCEPT !.nonce = out.res.val]]
            /\ pc' = [pc EXCEPT ![t] = "nonce_ok"]
            /\ UNCHANGED result
       ELSE /\ result' = [result EXCEPT ![t] = out.res]
            /\ pc' = [pc EXCEPT ![t] = "done"]
            /\ UNCHANGED local
    /\ UNCHANGED <<config, call, held, flows>>

\* let nonce = self.request_nonce().await?;
request_nonce_returns(t, r) ==
    LET out == request_nonce_response(r) IN
    /\ pc[t] = "nonce_sent"
    /\ r \in NonceResponses(issued)
    /\ issued' = IF ~r.failed /\ r.body.ty = "Nonce" THEN issued + 1 ELSE issued
    /\ log' = [log EXCEPT ![t] = @ \o <<RespEv(r)>> \o JsonEvs(out.parsed)]
    /\ IF out.res.ok
       THEN /\ local' = [local EXCEPT ![t].nonce = out.res.val]
            /\ pc' = [pc EXCEPT ![t] = "nonce_ok"]
            /\ UNCHANGED result
       ELSE /\ result' = [result EXCEPT ![t] = out.res]
            /\ pc' = [pc EXCEPT ![t] = "done"]
            /\ UNCHANGED local
    /\ UNCHANGED <<config, call, held, flows>>

\* The payload is built, serialized and wrapped: JwsBuilder::from(to_vec(..)).
BuildJwt(t, payload) ==
    /\ pc[t] = "nonce_ok"
    /\ local' = [local EXCEPT ![t].jwt = Some(JwsBuilder(to_vec(payload)))]
    /\ log' = [log EXCEPT ![t] = Append(@, PayloadEv(payload))]
    /\ pc' = [pc EXCEPT ![t] = "built"]
    /\ UNCHANGED <<config, call, result, held, flows, issued>>

build_username_password_jwt(t, os) ==
    /\ call[t].entry = "acquire_user_prt_by_username_password"
    /\ BuildJwt(t, UsernamePasswordAuthenticationPayload_new(
                       call[t].username, call[t].password, Unwrap(local[t].nonce), os))

build_refresh_token_jwt(t, os) ==
    /\ call[t].entry = "acquire_user_prt_silent"
    /\ BuildJwt(t, RefreshTokenAuthenticationPayload_new(
                       call[t].refresh_token, Unwrap(local[t].nonce), os))

\* A variant that reports a signer that cannot be loaded as a request failure.
load_tpm_signer_as_request_failure(t, ok) ==
    /\ pc[t] = "built"
    /\ log' = [log EXCEPT ![t] = Append(@, TpmEv("signer_new", ok))]
    /\ IF ok
       THEN /\ pc' = [pc EXCEPT ![t] = "signer_loaded"]
            /\ UNCHANGED result
       ELSE /\ pc' = [pc EXCEPT ![t] = "done"]
            /\ result' = [result EXCEPT ![t] = Err("RequestFailed")]
    /\ UNCHANGED <<config, call, local, held, flows, issued>>

\* acquire_user_prt_jwt: JwsTpmSigner::new(tpm, id_key)
load_tpm_signer(t, ok) ==
    /\ pc[t] = "built"
    /\ log' = [log EXCEPT ![t] = Append(@, TpmEv("signer_new", ok))]
    /\ IF ok
       THEN /\ pc' = [pc EXCEPT ![t] = "signer_loaded"]
            /\ UNCHANGED result
       ELSE /\ pc' = [pc EXCEPT ![t] = "done"]
            /\ result' = [result EXCEPT ![t] = TPMFail("Failed loading tpm signer")]
    /\ UNCHANGED <<config, call, local, held, flows, issued>>

\* A variant that sends the exchange request whatever sign returned.
sign_and_post_unchecked(t, ok) ==
    LET signed_jwt == Signed(Unwrap(local[t].jwt), call[t].id_key)
        payload == plain_payload(prt_params(Compact(signed_jwt)))
    IN
    /\ pc[t] = "signer_loaded"
    /\ log' = [log EXCEPT ![t] =
                 @ \o <<TpmEv("sign", ok), JwsPostEv(prt_url(config), payload, signed_jwt)>>]
    /\ pc' = [pc EXCEPT ![t] = "exchange_sent"]
    /\ UNCHANGED <<config, call, local, result, held, flows, issued>>

\* acquire_user_prt_jwt: jws_tpm_signer.sign(jwt), then the exchange request
\* up to its .send().await
sign_and_post(t, ok) ==
    LET signed_jwt == Signed(Unwrap(local[t].jwt), call[t].id_key)
        payload == plain_payload(prt_params(Compact(signed_jwt)))
    IN
    /\ pc[t] = "signer_loaded"
    /\ IF ok
       THEN /\ log' = [log EXCEPT ![t] =
                         @ \o <<TpmEv("sign", TRUE), JwsPostEv(prt_url(config), payload, signed_jwt)>>]
            /\ pc' = [pc EXCEPT ![t] = "exchange_sent"]
            /\ UNCHANGED result
       ELSE /\ log' = [log EXCEPT ![t] = Append(@, TpmEv("sign", FALSE))]
            /\ pc' = [pc EXCEPT ![t] = "done"]
            /\ result' = [result EXCEPT ![t] = TPMFail("Failed signing jwk")]
    /\ UNCHANGED <<config, call, local, held, flows, issued>>

\* A variant that goes on waiting when the transport fails and never returns.
acquire_user_prt_jwt_returns_hanging(t, r) ==
    /\ pc[t] = "exchange_sent"
    /\ IF r.failed
       THEN /\ log' = [log EXCEPT ![t] = Append(@, RespEv(r))]
            /\ pc' = [pc EXCEPT ![t] = "exchange_wait"]
            /\ UNCHANGED result
       ELSE Finish(t, r, acquire_user_prt_jwt_response(r))
    /\ UNCHANGED <<config, call, local, held, flows, issued>>

acquire_user_prt_jwt_returns(t, r) ==
    /\ pc[t] = "exchange_sent"
    /\ Finish(t, r, acquire_user_prt_jwt_response(r))
    /\ UNCHANGED <<config, call, local, held, flows, issued>>

(***************************************************************************)
(* Calls made one after another on one PublicClientApplication.           *)
(***************************************************************************)
Next ==
    \/ \E t \in SeqTasks, u \in Usernames, p \in Passwords, s \in FewScopeLists :
          acquire_token_by_username_password(t, u, p, s)
    \/ \E t \in SeqTasks, u \in Usernames, p \in Passwords :
          acquire_token_for_device_enrollment(t, u, p)
    \/ \E t \in SeqTasks, r \in TokenResponses :
          acquire_token_by_username_password_returns(t, r)
    \/ \E t \in SeqTasks, s \in FewScopeLists : initiate_device_flow(t, s)
    \/ \E t \in SeqTasks, r \in DeviceCodeResponses : initiate_device_flow_returns(t, r)
    \/ \E t \in SeqTasks, moved \in BOOLEAN : acquire_token_by_device_flow(t, moved)
    \/ \E t \in SeqTasks, r \in TokenResponses : acquire_token_by_device_flow_returns(t, r)
    \/ \E t \in SeqTasks, s \in FewScopeLists, rt \in RefreshTokens :
          acquire_token_silent(t, s, rt)
    \/ \E t \in SeqTasks, r \in TokenResponses : acquire_token_silent_returns(t, r)
    \/ \E t \in SeqTasks, u \in Usernames, p \in Passwords, k \in IdentityKeys :
          acquire_user_prt_by_username_password(t, u, p, k)
    \/ \E t \in SeqTasks, rt \in RefreshTokens, k \in IdentityKeys :
          acquire_user_prt_silent(t, rt, k)
    \/ \E t \in SeqTasks, r \in NonceResponses(issued) : request_nonce_returns(t, r)
    \/ \E t \in SeqTasks, os \in OsReleases : build_username_password_jwt(t, os)
    \/ \E t \in SeqTasks, os \in OsReleases : build_refresh_token_jwt(t, os)
    \/ \E t \in SeqTasks, ok \in BOOLEAN : load_tpm_signer(t, ok)
    \/ \E t \in SeqTasks, ok \in BOOLEAN : sign_and_post(t, ok)
    \/ \E t \in SeqTasks, r \in PrtResponses : acquire_user_prt_jwt_returns(t, r)
    \/ \E t \in SeqTasks : Return(t)

Spec == Init /\ [][Next]_vars

(***************************************************************************)
(* The flows that take a scope list, called with every list of up to      *)
(* MaxScopes scopes.                                                       *)
(***************************************************************************)
NextScopes ==
    \/ \E t \in SeqTasks, u \in Usernames, p \in Passwords, s \in ScopeLists :
          acquire_token_by_username_password(t, u, p, s)
    \/ \E t \in SeqTasks, r \in TokenResponses :
          acquire_token_by_username_password_returns(t, r)
    \/ \E t \in SeqTasks, s \in ScopeLists : initiate_device_flow(t, s)
    \/ \E t \in SeqTasks, r \in DeviceCodeResponses : initiate_device_flow_returns(t, r)
    \/ \E t \in SeqTasks, s \in ScopeLists, rt \in RefreshTokens :
          acquire_token_silent(t, s, rt)
    \/ \E t \in SeqTasks, r \in TokenResponses : acquire_token_silent_returns(t, r)
    \/ \E t \in SeqTasks : Return(t)

SpecScopes == Init /\ [][NextScopes]_vars

(***************************************************************************)
(* Every entry point, on a PublicClientApplication made for any of the    *)
(* tenants and hosts, with the fewer answers.                              *)
(***************************************************************************)
NextTenants ==
    \/ \E t \in SeqTasks, u \in Usernames, p \in Passwords, s \in FewScopeLists :
          acquire_token_by_username_password(t, u, p, s)
    \/ \E t \in SeqTasks, u \in Usernames, p \in Passwords :
          acquire_token_for_device_enrollment(t, u, p)
    \/ \E t \in SeqTasks, r \in FewTokenResponses :
          acquire_token_by_username_password_returns(t, r)
    \/ \E t \in SeqTasks, s \in FewScopeLists : initiate_device_flow(t, s)
    \/ \E t \in SeqTasks, r \in FewDeviceCodeResponses : initiate_device_flow_returns(t, r)
    \/ \E t \in SeqTasks, moved \in BOOLEAN : acquire_token_by_device_flow(t, moved)
    \/ \E t \in SeqTasks, r \in FewTokenResponses : acquire_token_by_device_flow_returns(t, r)
    \/ \E t \in SeqTasks, s \in FewScopeLists, rt \in RefreshTokens :
          acquire_token_silent(t, s, rt)
    \/ \E t \in SeqTasks, r \in FewTokenResponses : acquire_token_silent_returns(t, r)
    \/ \E t \in SeqTasks, u \in Usernames, p \in Passwords, k \in IdentityKeys :
          acquire_user_prt_by_username_password(t, u, p, k)
    \/ \E t \in SeqTasks, rt \in RefreshTokens, k \in IdentityKeys :
          acquire_user_prt_silent(t, rt, k)
    \/ \E t \in SeqTasks, r \in FewNonceResponses(issued) : request_nonce_returns(t, r)
    \/ \E t \in SeqTasks, os \in OsReleases : build_username_password_jwt(t, os)
    \/ \E t \in SeqTasks, os \in OsReleases : build_refresh_token_jwt(t, os)
    \/ \E t \in SeqTasks, ok \in BOOLEAN : load_tpm_signer(t, ok)
    \/ \E t \in SeqTasks, ok \in BOOLEAN : sign_and_post(t, ok)
    \/ \E t \in SeqTasks, r \in FewPrtResponses : acquire_user_prt_jwt_returns(t, r)
    \/ \E t \in SeqTasks : Return(t)

SpecTenants == InitTenants /\ [][NextTenants]_vars

(***************************************************************************)
(* Calls made by two tasks at once on the one PublicClientApplication:    *)
(* each await point of a call is a step, and the steps of the two calls   *)
(* interleave in any order.  Each task passes its own arguments, and the  *)
(* endpoints answer with a transport failure or with what they are there  *)
(* to give.                                                                *)
(***************************************************************************)
Callers ==
    << [username |-> <<"user", "@", "contoso.com">>,
        password |-> <<"p", "@", "ss", "&", "x", "=", "1">>,
        refresh_token |-> <<"0.AAAA", "+", "rt", "/", "1">>,
        scopes |-> <<>>, id_key |-> "id_key", os |-> Nothing, user_code |-> <<"UC-A">>],
       [username |-> <<"admin", "@", "contoso.com">>,
        password |-> <<"q", "%", "w">>,
        refresh_token |-> <<"0.BBBB", "/", "rt", "+", "2">>,
        scopes |-> << <<"user.read">> >>, id_key |-> "id_key_2",
        os |-> Some(<<"Debian", " ", "12">>), user_code |-> <<"UC-B">>] >>

LeastAnswers(responses, ty) ==
    {r \in responses : r.failed \/ (r.status = 200 /\ r.body.ty = ty)}

LeastTokenResponses ==
    {TransportFailure}
    \cup {Response(200, Body(TRUE, "document", Some(d))) : d \in FewUserTokenDocuments}

\* The authority gives each caller a device code of its own.
LeastDeviceCodeResponses(t) ==
    {r \in LeastAnswers(DeviceCodeResponses, "DeviceAuthorizationResponse") :
        r.failed \/ Unwrap(r.body.val).user_code = Callers[t].user_code}

NextConcurrent ==
    \/ \E t \in Tasks :
          acquire_token_by_username_password(t, Callers[t].username, Callers[t].password,
                                             Callers[t].scopes)
    \/ \E t \in Tasks, r \in LeastTokenResponses :
          acquire_token_by_username_password_returns(t, r)
    \/ \E t \in Tasks : initiate_device_flow(t, Callers[t].scopes)
    \/ \E t \in Tasks : \E r \in LeastDeviceCodeResponses(t) : initiate_device_flow_returns(t, r)
    \/ \E t \in Tasks : acquire_token_by_device_flow(t, TRUE)
    \/ \E t \in Tasks, r \in LeastTokenResponses : acquire_token_by_device_flow_returns(t, r)
    \/ \E t \in Tasks : acquire_token_silent(t, Callers[t].scopes, Callers[t].refresh_token)
    \/ \E t \in Tasks, r \in LeastTokenResponses : acquire_token_silent_returns(t, r)
    \/ \E t \in Tasks :
          acquire_user_prt_by_username_password(t, Callers[t].username, Callers[t].password,
                                                Callers[t].id_key)
    \/ \E t \in Tasks :
          acquire_user_prt_silent(t, Callers[t].refresh_token, Callers[t].id_key)
    \/ \E t \in Tasks, r \in LeastAnswers(NonceResponses(issued), "Nonce") :
          request_nonce_returns(t, r)
    \/ \E t \in Tasks : build_username_password_jwt(t, Callers[t].os)
    \/ \E t \in Tasks : build_refresh_token_jwt(t, Callers[t].os)
    \/ \E t \in Tasks, ok \in BOOLEAN : load_tpm_signer(t, ok)
    \/ \E t \in Tasks, ok \in BOOLEAN : sign_and_post(t, ok)
    \/ \E t \in Tasks, r \in LeastAnswers(PrtResponses, "PrimaryRefreshToken") :
          acquire_user_prt_jwt_returns(t, r)
    \/ \E t \in Tasks : Return(t)

SpecConcurrent == Init /\ [][NextConcurrent]_vars

(***************************************************************************)
(* The PRT entry points, one call after another, where every collaborator *)
(* returns: a request that was sent is answered (or fails), and the steps *)
(* between two requests (building the payload, loading the signer,        *)
(* signing) are taken.  Whether the caller calls again is left open.      *)
(***************************************************************************)
NextPrt ==
    \/ \E t \in SeqTasks, u \in Usernames, p \in Passwords, k \in IdentityKeys :
          acquire_user_prt_by_username_password(t, u, p, k)
    \/ \E t \in SeqTasks, rt \in RefreshTokens, k \in IdentityKeys :
          acquire_user_prt_silent(t, rt, k)
    \/ \E t \in SeqTasks, r \in NonceResponses(issued) : request_nonce_returns(t, r)
    \/ \E t \in SeqTasks, os \in OsReleases : build_username_password_jwt(t, os)
    \/ \E t \in SeqTasks, os \in OsReleases : build_refresh_token_jwt(t, os)
    \/ \E t \in SeqTasks, ok \in BOOLEAN : load_tpm_signer(t, ok)
    \/ \E t \in SeqTasks, ok \in BOOLEAN : sign_and_post(t, ok)
    \/ \E t \in SeqTasks, r \in PrtResponses : acquire_user_prt_jwt_returns(t, r)
    \/ \E t \in SeqTasks : Return(t)

\* The steps of a call in flight: each is the return of a collaborator.
PrtStep(t) ==
    \/ \E r \in NonceResponses(issued) : request_nonce_returns(t, r)
    \/ \E os \in OsReleases : build_username_password_jwt(t, os)
    \/ \E os \in OsReleases : build_refresh_token_jwt(t, os)
    \/ \E ok \in BOOLEAN : load_tpm_signer(t, ok)
    \/ \E ok \in BOOLEAN : sign_and_post(t, ok)
    \/ \E r \in PrtResponses : acquire_user_prt_jwt_returns(t, r)

SpecPrt == Init /\ [][NextPrt]_vars /\ \A t \in SeqTasks : WF_vars(PrtStep(t))

(***************************************************************************)
(* Reading a call's log.                                                   *)
(***************************************************************************)
Busy == {t \in Tasks : pc[t] # "idle"}
PrtCalls == {t \in Busy : call[t].entry \in PrtEntries}
StandardCalls == {t \in Busy : call[t].entry \in StandardEntries}

At(t, ev) == {i \in 1..Len(log[t]) : log[t][i].ev = ev}
ExchangePosts(t) == {i \in At(t, "post") : IsSome(log[t][i].jws)}
NoncePosts(t) == {i \in At(t, "post") : log[t][i].body = nonce_body}
TheResp(t, i) == Unwrap(log[t][i].resp)

Is2xx(r) == ~r.failed /\ r.status \in 200..299
\* The answer carries a nonce: 2xx, and the body is a Nonce document.
GrantsNonce(r) == Is2xx(r) /\ r.body.json /\ r.body.ty = "Nonce"

(***************************************************************************)
(* C1.  In every PRT attempt the steps occur in the order nonce request,  *)
(* payload construction, signing, exchange POST: the payload is built and *)
(* the key store is called only after the attempt's nonce request was     *)
(* answered with a nonce, and the exchange POST is sent only after the    *)
(* attempt's signing call returned a signed token.                         *)
(***************************************************************************)
C1_PrtStepOrder ==
    \A t \in PrtCalls :
        /\ \A i \in At(t, "payload") :
              \E j \in At(t, "resp") : j < i /\ GrantsNonce(TheResp(t, j))
                  /\ \E k \in NoncePosts(t) : k < j
        /\ \A i \in At(t, "signer_new") \cup At(t, "sign") :
              \E j \in At(t, "payload") : j < i
        /\ \A i \in ExchangePosts(t) :
              /\ \E j \in At(t, "sign") : j < i /\ log[t][j].tag = "ok"
              /\ \A j \in NoncePosts(t) : j < i
        /\ \A i \in At(t, "post") \ ExchangePosts(t) : i \in NoncePosts(t)

C1_Witness ==
    \E t \in PrtCalls :
        /\ pc[t] = "exchange_sent"
        /\ ExchangePosts(t) # {}
        /\ At(t, "sign") # {}

(***************************************************************************)
(* C2.  Every PRT attempt that builds a payload has sent its own nonce    *)
(* request, and the payload's request_nonce is the nonce that request's   *)
(* answer carried: a nonce the authority issued after the attempt began,  *)
(* hence none that an earlier attempt obtained.                            *)
(***************************************************************************)
C2_FreshNoncePerAttempt ==
    \A t \in PrtCalls :
        \A i \in At(t, "payload") :
            LET n == Unwrap(log[t][i].payload).request_nonce IN
            /\ Cardinality(NoncePosts(t) \cap 1..i) = 1
            /\ \E j \in At(t, "resp") :
                  /\ j < i
                  /\ GrantsNonce(TheResp(t, j))
                  /\ Unwrap(TheResp(t, j).body.val).nonce = n
            /\ n \in {NonceStr(k) : k \in (call[t].epoch + 1)..issued}
            /\ n \notin {NonceStr(k) : k \in 1..call[t].epoch}

C2_Witness ==
    \E t \in PrtCalls :
        /\ call[t].epoch >= 1
        /\ pc[t] = "built"
        /\ \E i \in At(t, "payload") :
              Unwrap(log[t][i].payload).request_nonce = NonceStr(call[t].epoch + 1)

(***************************************************************************)
(* C3.  For every entry point and every request it makes, a non-2xx       *)
(* answer ends the call; when its body is an ErrorResponse document the   *)
(* result is AcquireTokenFailed carrying exactly that ErrorResponse, and  *)
(* when its body is not JSON the result is InvalidJson, carrying nothing. *)
(***************************************************************************)
C3_ErrorBodyClassified ==
    \A t \in Busy :
        \A i \in At(t, "resp") :
            LET r == TheResp(t, i) IN
            (~r.failed /\ ~Is2xx(r)) =>
                /\ pc[t] = "done"
                /\ (r.body.json /\ r.body.ty = "ErrorResponse") =>
                      /\ result[t].kind = "AcquireTokenFailed"
                      /\ result[t].val = r.body.val
                /\ ~r.body.json =>
                      /\ result[t].kind = "InvalidJson"
                      /\ result[t].val = Nothing

C3_Witness ==
    \E t \in PrtCalls :
        /\ pc[t] = "done"
        /\ ExchangePosts(t) # {}
        /\ result[t].kind = "AcquireTokenFailed"
        /\ Unwrap(result[t].val).error = "invalid_grant"
        /\ log[t][Len(log[t]) - 1].ev = "resp"
        /\ ~Is2xx(TheResp(t, Len(log[t]) - 1))

C5_NonceFailureIsTerminal ==
    \A t \in PrtCalls :
        \A i \in At(t, "resp") :
            (ExchangePosts(t) \cap 1..i = {} /\ ~GrantsNonce(TheResp(t, i))) =>
                /\ pc[t] = "done"
                /\ ~result[t].ok
                /\ result[t].kind =
                      (IF TheResp(t, i).failed THEN "RequestFailed"
                       ELSE IF ~Is2xx(TheResp(t, i)) /\ TheResp(t, i).body.ty = "ErrorResponse"
                       THEN "AcquireTokenFailed" ELSE "InvalidJson")
                /\ At(t, "payload") \cup At(t, "signer_new") \cup At(t, "sign") = {}
                /\ Cardinality(At(t, "post")) = 1

C5_Witness ==
    \E t \in PrtCalls :
        /\ pc[t] = "done"
        /\ ExchangePosts(t) = {}
        /\ result[t].kind = "InvalidJson"
        /\ log[t][2].ev = "resp"
        /\ Is2xx(TheResp(t, 2))

(***************************************************************************)
(* C6.  When loading the signer or signing fails in a PRT attempt, the    *)
(* attempt is over with TPMFail: the failed key-store call is the last    *)
(* thing it does, it is not repeated, and no exchange POST is sent.       *)
(***************************************************************************)
C6_SigningFailure ==
    \A t \in PrtCalls :
        \A i \in At(t, "signer_new") \cup At(t, "sign") :
            log[t][i].tag = "err" =>
                /\ i = Len(log[t])
                /\ pc[t] = "done"
                /\ result[t].kind = "TPMFail"
                /\ result[t].kind \notin {"RequestFailed", "InvalidJson", "AcquireTokenFailed"}
                /\ ExchangePosts(t) = {}
                /\ Cardinality(At(t, "signer_new")) = 1
                /\ Cardinality(At(t, "sign")) <= 1

C6_Witness ==
    \E t \in PrtCalls :
        /\ pc[t] = "done"
        /\ log[t][Len(log[t])].ev = "sign"
        /\ log[t][Len(log[t])].tag = "err"
        /\ result[t] = TPMFail("Failed signing jwk")

(***************************************************************************)
(* C7.  Nothing is retried inside a call: a standard grant call sends     *)
(* exactly one request; a PRT attempt sends one nonce request, calls the  *)
(* signer at most once and sends at most one exchange request.            *)
(***************************************************************************)
C7_NoRetry ==
    /\ \A t \in StandardCalls :
          /\ Cardinality(At(t, "post")) = 1
          /\ Cardinality(At(t, "resp")) <= 1
    /\ \A t \in PrtCalls :
          /\ Cardinality(NoncePosts(t)) = 1
          /\ Cardinality(At(t, "signer_new")) <= 1
          /\ Cardinality(At(t, "sign")) <= 1
          /\ Cardinality(ExchangePosts(t)) <= 1
          /\ Cardinality(At(t, "post")) <= 2
          /\ Cardinality(At(t, "resp")) <= Cardinality(At(t, "post"))

C7_Witness ==
    \E t \in PrtCalls :
        /\ pc[t] = "done"
        /\ result[t].ok
        /\ Cardinality(At(t, "post")) = 2
        /\ Cardinality(At(t, "sign")) = 1

(***************************************************************************)
(* C8.  Polling with acquire_token_by_device_flow.                         *)
(***************************************************************************)
DeviceFlowCalls == {t \in Busy : call[t].entry = "acquire_token_by_device_flow"}

RECURSIVE SpaceBefore(_)
SpaceBefore(scopes) ==
    IF scopes = <<>> THEN <<>>
    ELSE <<" ">> \o Head(scopes) \o SpaceBefore(Tail(scopes))

ExpectedScope(scopes) ==
    <<"openid", " ", "profile", " ", "offline_access">> \o SpaceBefore(scopes)

ScopedEntries ==
    {"acquire_token_by_username_password", "initiate_device_flow", "acquire_token_silent"}

C9_ScopeParameter ==
    \A t \in Busy :
        call[t].entry \in ScopedEntries =>
            FormValues(log[t][1].body, "scope") = <<ExpectedScope(call[t].scopes)>>

C9_Witness ==
    \E t \in Busy :
        /\ call[t].entry = "acquire_token_silent"
        /\ call[t].scopes = << <<"openid">>, <<"a", " ", "b", "&", "c">> >>
        /\ FormValues(log[t][1].body, "scope") =
              << <<"openid", " ", "profile", " ", "offline_access", " ", "openid", " ",
                   "a", " ", "b", "&", "c">> >>

(***************************************************************************)
(* C10.  The unsigned PRT payload carries the broker client id (not the   *)
(* configured client id), scope "openid aza ugs" and the nonce just       *)
(* received; grant_type "password" with the caller's username and         *)
(* password for the username/password entry point, "refresh_token" with   *)
(* the caller's refresh token for the silent one.                          *)
(***************************************************************************)
MemberStr(members, name) ==
    LET hits == {i \in 1..Len(members) : members[i].name = name}
    IN [i \in hits |-> members[i].str]

C10_PrtPayload ==
    \A t \in PrtCalls :
        \A i \in At(t, "payload") :
            LET p == Unwrap(log[t][i].payload)
                m == Unwrap(local[t].jwt).payload
                one(name, str) == \E k \in 1..Len(m) : MemberStr(m, name) = (k :> str)
            IN
            /\ p.client_id = <<"38aa3b87-a06d-4817-b275-7a316988d93b">>
            /\ p.client_id # config.client_id
            /\ p.scope = <<"openid", " ", "aza", " ", "ugs">>
            /\ p.request_nonce = Unwrap(local[t].nonce)
            /\ \E j \in At(t, "resp") :
                  /\ j < i
                  /\ GrantsNonce(TheResp(t, j))
                  /\ p.request_nonce = Unwrap(TheResp(t, j).body.val).nonce
            /\ one("client_id", p.client_id)
            /\ one("scope", p.scope)
            /\ one("request_nonce", p.request_nonce)
            /\ IF call[t].entry = "acquire_user_prt_by_username_password"
               THEN /\ p.grant_type = <<"password">>
                    /\ p.username = call[t].username
                    /\ p.password = call[t].password
                    /\ "refresh_token" \notin DOMAIN p
                    /\ one("grant_type", <<"password">>)
                    /\ one("username", call[t].username)
                    /\ one("password", call[t].password)
               ELSE /\ p.grant_type = <<"refresh_token">>
                    /\ p.refresh_token = call[t].refresh_token
                    /\ DOMAIN p \cap {"username", "password"} = {}
                    /\ one("grant_type", <<"refresh_token">>)
                    /\ one("refresh_token", call[t].refresh_token)

C10_Witness ==
    \E t \in PrtCalls :
        /\ call[t].entry = "acquire_user_prt_by_username_password"
        /\ pc[t] = "built"
        /\ Unwrap(log[t][Len(log[t])].payload).grant_type = <<"password">>
        /\ Unwrap(log[t][Len(log[t])].payload).client_id = BROKER_CLIENT_IDENT

(***************************************************************************)
(* C11.  When OsRelease::new() yields no string, the serialized PRT       *)
(* payload has no win_ver member at all (not one holding null), and its   *)
(* other members are those of the payload serialized with an OS string;   *)
(* for the username/password and for the refresh-token payload.           *)
(***************************************************************************)
WithoutWinVer(members) == SelectSeq(members, LAMBDA m : m.name # "win_ver")

C11_WinVerOmitted ==
    \A t \in PrtCalls :
        \A i \in At(t, "payload") :
            LET p == Unwrap(log[t][i].payload)
                bytes == Unwrap(local[t].jwt).payload
            IN ~IsSome(p.win_ver) =>
                  /\ \A k \in 1..Len(bytes) : bytes[k].name # "win_ver"
                  /\ \A os \in OsReleases :
                        IsSome(os) =>
                            bytes = WithoutWinVer(to_vec([p EXCEPT !.win_ver = os]))

(***************************************************************************)
(* Reading the nested decoders' calls.                                     *)
(***************************************************************************)
DecodeCalls(t, fn) == {i \in At(t, "decode") : log[t][i].tag = fn}
RawOf(t, i) == Unwrap(log[t][i].raw)
OutOf(t, i) == Unwrap(log[t][i].out)

\* The string is the unpadded base64url text of a JSON object.
CarriesObject(raw) ==
    /\ raw.kind = "string"
    /\ Len(raw.str) = 1
    /\ ~raw.str[1].dot /\ raw.str[1].clean /\ ~raw.str[1].padded
    /\ raw.str[1].bytes.utf8 /\ raw.str[1].bytes.json
    /\ raw.str[1].bytes.value.kind = "object"

ObjectOf(raw) == raw.str[1].bytes.value
Named(obj, f) == {k \in 1..Len(obj.members) : obj.members[k].name = f}
\* The members named f that hold the text of a UUID.
UuidNamed(obj, f) ==
    {k \in Named(obj, f) :
        /\ obj.members[k].value.kind = "string"
        /\ Len(obj.members[k].value.str) = 1
        /\ obj.members[k].value.str[1] \in DOMAIN UuidTexts}
UuidOf(obj, f) == UuidTexts[obj.members[CHOOSE k \in UuidNamed(obj, f) : TRUE].value.str[1]]

\* {"uid":"<uuid>","utid":"<uuid>"}, in any order and among other members.
WellFormedClientInfo(raw) ==
    /\ CarriesObject(raw)
    /\ \A f \in {"uid", "utid"} :
          Cardinality(Named(ObjectOf(raw), f)) = 1 /\ UuidNamed(ObjectOf(raw), f) # {}
\* f is missing, malformed or not a UUID.
Lacks(raw, f) == ~CarriesObject(raw) \/ UuidNamed(ObjectOf(raw), f) = {}

(***************************************************************************)
(* C12.  decode_client_info is all-or-nothing: it fails when uid or utid  *)
(* is missing, malformed or not a UUID; what it returns has both uid and  *)
(* utid set; and the unpadded base64url text of an object with a UUID     *)
(* string for uid and for utid decodes to exactly those two UUIDs.        *)
(***************************************************************************)
C12_ClientInfoAllOrNothing ==
    \A t \in Busy :
        \A i \in DecodeCalls(t, "decode_client_info") :
            LET raw == RawOf(t, i)
                out == OutOf(t, i)
            IN
            /\ (Lacks(raw, "uid") \/ Lacks(raw, "utid")) => ~out.ok
            /\ ~out.ok => out.val = Nothing
            /\ out.ok => IsSome(Unwrap(out.val).uid) /\ IsSome(Unwrap(out.val).utid)
            /\ WellFormedClientInfo(raw) =>
                  /\ out.ok
                  /\ Unwrap(out.val).uid = Some(UuidOf(ObjectOf(raw), "uid"))
                  /\ Unwrap(out.val).utid = Some(UuidOf(ObjectOf(raw), "utid"))

C12_Witness ==
    \E t \in Busy :
        \E i \in DecodeCalls(t, "decode_client_info") :
            /\ WellFormedClientInfo(RawOf(t, i))
            /\ Len(ObjectOf(RawOf(t, i)).members) = 3
            /\ OutOf(t, i).ok
            /\ Unwrap(OutOf(t, i).val) =
                  [uid |-> Some("9f4880d8-80ba-4c40-97bc-f7a23c703084"),
                   utid |-> Some("f645ad92-e38d-4d1a-b510-d1b09a74a8ca")]

(***************************************************************************)
(* C13.  decode_id_token on a string with fewer than two dot-separated    *)
(* segments (no dot: the empty string, or one segment) fails, returns no  *)
(* IdToken, and the call that received the token returns InvalidJson.     *)
(***************************************************************************)
SegmentsOf(raw) == Cardinality({k \in 1..Len(raw.str) : raw.str[k].dot}) + 1

C13_IdTokenNeedsPayloadSegment ==
    \A t \in Busy :
        \A i \in DecodeCalls(t, "decode_id_token") :
            (RawOf(t, i).kind = "string" /\ SegmentsOf(RawOf(t, i)) < 2) =>
                /\ ~OutOf(t, i).ok
                /\ OutOf(t, i).val = Nothing
                /\ pc[t] = "done"
                /\ result[t] = Err("InvalidJson")

C13_Witness ==
    \E t \in Busy :
        \E i \in DecodeCalls(t, "decode_id_token") :
            /\ RawOf(t, i) = JString(<<>>)
            /\ ~OutOf(t, i).ok
            /\ result[t].kind = "InvalidJson"

(***************************************************************************)
(* C14.  In the password, device-code-exchange and silent grants a 2xx    *)
(* answer is never reported as AcquireTokenFailed; when its body is not a *)
(* JSON token document, or a nested decoder fails on its id_token or on   *)
(* its client_info, the result is InvalidJson; a UserToken is returned    *)
(* only when decode_id_token ran and succeeded and, where the document    *)
(* holds a client_info, decode_client_info did too, and the token holds   *)
(* what they returned.                                                     *)
(***************************************************************************)
UserTokenEntries ==
    {"acquire_token_by_username_password", "acquire_token_for_device_enrollment",
     "acquire_token_by_device_flow", "acquire_token_silent"}
UserTokenCalls == {t \in Busy : call[t].entry \in UserTokenEntries /\ pc[t] = "done"}
\* The members of the answer's body named f; none when it is no document.
BodyMembers(r, f) ==
    IF r.body.json /\ r.body.ty = "document" /\ Unwrap(r.body.val).kind = "object"
    THEN Named(Unwrap(r.body.val), f)
    ELSE {}

C14_MalformedNestingRejected ==
    \A t \in UserTokenCalls :
        \A i \in At(t, "resp") :
            LET r == TheResp(t, i)
                failed == {j \in At(t, "decode") : ~OutOf(t, j).ok}
            IN Is2xx(r) =>
                /\ result[t].kind \in {"Ok", "InvalidJson"}
                /\ (~r.body.json \/ r.body.ty # "document") => result[t] = Err("InvalidJson")
                /\ failed # {} => result[t] = Err("InvalidJson")
                /\ result[t].ok =>
                      /\ \E j \in DecodeCalls(t, "decode_id_token") :
                            /\ OutOf(t, j).ok
                            /\ Unwrap(result[t].val).id_token = Unwrap(OutOf(t, j).val)
                      /\ BodyMembers(r, "client_info") # {} =>
                            \E j \in DecodeCalls(t, "decode_client_info") :
                                /\ OutOf(t, j).ok
                                /\ Unwrap(result[t].val).client_info = Unwrap(OutOf(t, j).val)

C14_Witness ==
    \E t \in UserTokenCalls :
        /\ call[t].entry = "acquire_token_by_device_flow"
        /\ log[t][2].ev = "resp"
        /\ Is2xx(TheResp(t, 2))
        /\ \E j \in DecodeCalls(t, "decode_id_token") : OutOf(t, j).ok
        /\ \E j \in DecodeCalls(t, "decode_client_info") : ~OutOf(t, j).ok
        /\ result[t] = Err("InvalidJson")

(***************************************************************************)
(* C15.  The body of every request, the nonce request and the PRT         *)
(* exchange included, is its parameters in order, each as the key, "=",   *)
(* and the percent-encoded value, joined by "&".                           *)
(***************************************************************************)
\* The parameters of the i-th thing call t did, a request.
ParamsOf(t, i) ==
    LET c == call[t] IN
    CASE c.entry \in {"acquire_token_by_username_password",
                      "acquire_token_for_device_enrollment"} ->
            << << <<"client_id">>, config.client_id >>,
               << <<"scope">>, ExpectedScope(c.scopes) >>,
               << <<"username">>, c.username >>,
               << <<"password">>, c.password >>,
               << <<"grant_type">>, <<"password">> >>,
               << <<"client_info">>, <<"1">> >> >>
      [] c.entry = "initiate_device_flow" ->
            << << <<"client_id">>, config.client_id >>,
               << <<"scope">>, ExpectedScope(c.scopes) >> >>
      [] c.entry = "acquire_token_by_device_flow" ->
            << << <<"client_id">>, config.client_id >>,
               << <<"grant_type">>,
                  <<"urn", ":", "ietf", ":", "params", ":", "oauth", ":", "grant-type", ":",
                    "device_code">> >>,
               << <<"device_code">>, Unwrap(c.flow).device_code >> >>
      [] c.entry = "acquire_token_silent" ->
            << << <<"client_id">>, config.client_id >>,
               << <<"scope">>, ExpectedScope(c.scopes) >>,
               << <<"grant_type">>, <<"refresh_token">> >>,
               << <<"refresh_token">>, c.refresh_token >>,
               << <<"client_info">>, <<"1">> >> >>
      [] c.entry \in PrtEntries /\ ~IsSome(log[t][i].jws) ->
            << << <<"grant_type">>, <<"srv_challenge">> >> >>
      [] c.entry \in PrtEntries /\ IsSome(log[t][i].jws) ->
            << << <<"windows_api_version">>, <<"2.0">> >>,
               << <<"grant_type">>,
                  <<"urn", ":", "ietf", ":", "params", ":", "oauth", ":", "grant-type", ":",
                    "jwt-bearer">> >>,
               << <<"request">>, Compact(Unwrap(log[t][i].jws)) >>,
               << <<"client_info">>, <<"1">> >>,
               << <<"tgt">>, <<"true">> >> >>

\* k=encode(v) joined by "&".
FormOf(params) ==
    Join([k \in 1..Len(params) |-> params[k][1] \o <<"=">> \o url_encode(params[k][2])],
         <<"&">>)

C15_EveryBodyPercentEncoded ==
    \A t \in Busy :
        \A i \in At(t, "post") : log[t][i].body = FormOf(ParamsOf(t, i))

(***************************************************************************)
(* C16.  Whatever the interleaving of two tasks' calls on the one         *)
(* PublicClientApplication: the configuration stays what new() made it;   *)
(* every request a call sends and the Result it returns are what its own  *)
(* arguments, the configuration and the answers to its own requests give  *)
(* (the payload carries the nonce of the call's own nonce answer); and a  *)
(* step of one call leaves the other task's call, bindings, requests and  *)
(* Result as they were.                                                    *)
(***************************************************************************)
InitialApp == PublicClientApplication_new(AppClientId, AppTenant, AppHost)

\* The first request of task t's call, from its caller's arguments.
OwnRequest(t) ==
    LET a == Callers[t]
        entry == call[t].entry
    IN CASE entry = "acquire_token_by_username_password" ->
              PostEv(token_url(InitialApp),
                     encoded_payload(password_params(InitialApp, a.username, a.password, a.scopes)))
         [] entry = "initiate_device_flow" ->
              PostEv(devicecode_url(InitialApp),
                     encoded_payload(device_init_params(InitialApp, a.scopes)))
         [] entry = "acquire_token_by_device_flow" ->
              PostEv(token_url(InitialApp),
                     encoded_payload(device_flow_params(InitialApp, Unwrap(call[t].flow))))
         [] entry = "acquire_token_silent" ->
              PostEv(token_url(InitialApp),
                     encoded_payload(silent_params(InitialApp, a.scopes, a.refresh_token)))
         [] entry \in PrtEntries -> PostEv(nonce_url(InitialApp), nonce_body)

\* The payload of task t's PRT call, from its caller's arguments and the
\* answer to its own nonce request.
OwnPayload(t) ==
    LET a == Callers[t]
        nonce == Unwrap(request_nonce_response(TheResp(t, 2)).res.val)
    IN IF call[t].entry = "acquire_user_prt_by_username_password"
       THEN UsernamePasswordAuthenticationPayload_new(a.username, a.password, nonce, a.os)
       ELSE RefreshTokenAuthenticationPayload_new(a.refresh_token, nonce, a.os)

OwnExchange(t) ==
    LET signed_jwt == Signed(JwsBuilder(to_vec(OwnPayload(t))), Callers[t].id_key)
    IN JwsPostEv(prt_url(InitialApp), plain_payload(prt_params(Compact(signed_jwt))),
                 signed_jwt)

LastResp(t) == TheResp(t, CHOOSE i \in At(t, "resp") : \A j \in At(t, "resp") : j <= i)

\* The Result of task t's finished call, from the answers to its own requests.
OwnResult(t) ==
    LET entry == call[t].entry
        failed(ev) == \E i \in At(t, ev) : log[t][i].tag = "err"
    IN CASE entry = "acquire_token_by_username_password" ->
              acquire_token_by_username_password_response(LastResp(t)).res
         [] entry = "initiate_device_flow" -> initiate_device_flow_response(LastResp(t)).res
         [] entry = "acquire_token_by_device_flow" ->
              acquire_token_by_device_flow_response(LastResp(t)).res
         [] entry = "acquire_token_silent" -> acquire_token_silent_response(LastResp(t)).res
         [] entry \in PrtEntries ->
              IF ~request_nonce_response(TheResp(t, 2)).res.ok
              THEN request_nonce_response(TheResp(t, 2)).res
              ELSE IF failed("signer_new") THEN TPMFail("Failed loading tpm signer")
              ELSE IF failed("sign") THEN TPMFail("Failed signing jwk")
              ELSE acquire_user_prt_jwt_response(LastResp(t)).res

\* What a task owns: its call, and the device flow its caller holds.
TaskState(t) == <<pc[t], call[t], local[t], log[t], result[t], held[t], flows[t]>>

C16_OwnRequestsAndResult ==
    /\ config = InitialApp
    /\ \A t \in Busy :
          /\ log[t][1] = OwnRequest(t)
          /\ call[t].entry = "acquire_token_by_device_flow" =>
                Unwrap(call[t].flow).user_code = Callers[t].user_code
          /\ \A i \in At(t, "payload") : Unwrap(log[t][i].payload) = OwnPayload(t)
          /\ \A i \in At(t, "post") : i > 1 => log[t][i] = OwnExchange(t)
          /\ pc[t] = "done" => result[t] = OwnResult(t)

C16_OneTaskPerStep ==
    \E t \in Tasks : \A u \in Tasks \ {t} : TaskState(u)' = TaskState(u)

C16_ConcurrentCallsIndependent ==
    /\ []C16_OwnRequestsAndResult
    /\ [][C16_OneTaskPerStep]_vars

\* Both tasks are in a PRT call, each past its own nonce answer, the second
\* nonce granted while the first call had not yet built its payload.
C16_Witness ==
    /\ pc[1] = "exchange_sent"
    /\ pc[2] = "built"
    /\ call[1].entry = "acquire_user_prt_by_username_password"
    /\ call[2].entry = "acquire_user_prt_silent"
    /\ local[1].nonce = Some(NonceStr(1))
    /\ local[2].nonce = Some(NonceStr(2))
    /\ At(2, "resp") # {} /\ At(1, "payload") # {}
    /\ Unwrap(log[1][CHOOSE i \in At(1, "payload") : TRUE].payload).request_nonce = NonceStr(1)

(***************************************************************************)
(* C17.  Each operation posts only to its endpoint under the configured   *)
(* host H and tenant T: device-flow initiation to                          *)
(* https://H/T/oauth2/v2.0/devicecode; the password, device-code and      *)
(* silent grants to https://H/T/oauth2/v2.0/token; the nonce request to   *)
(* https://H/common/oauth2/token whatever T is; the PRT exchange to       *)
(* https://H/T/oauth2/token.                                               *)
(***************************************************************************)
EndpointOf(t, i) ==
    LET H == config.authority_host
        T == config.tenant_id
    IN CASE call[t].entry = "initiate_device_flow" ->
               <<"https", ":", "/", "/">> \o H \o <<"/">> \o T
                   \o <<"/", "oauth2", "/", "v2.0", "/", "devicecode">>
         [] call[t].entry \in UserTokenEntries ->
               <<"https", ":", "/", "/">> \o H \o <<"/">> \o T
                   \o <<"/", "oauth2", "/", "v2.0", "/", "token">>
         [] call[t].entry \in PrtEntries /\ ~IsSome(log[t][i].jws) ->
               <<"https", ":", "/", "/">> \o H \o <<"/", "common", "/", "oauth2", "/", "token">>
         [] call[t].entry \in PrtEntries /\ IsSome(log[t][i].jws) ->
               <<"https", ":", "/", "/">> \o H \o <<"/">> \o T \o <<"/", "oauth2", "/", "token">>

C17_DesignatedEndpoints ==
    \A t \in Busy :
        /\ \A i \in At(t, "post") : log[t][i].url = EndpointOf(t, i)
        /\ call[t].entry \in PrtEntries =>
              /\ log[t][1].ev = "post" /\ ~IsSome(log[t][1].jws)
              /\ \A i \in At(t, "post") : i > 1 => IsSome(log[t][i].jws)

C17_Witness ==
    \E t \in PrtCalls :
        /\ config.tenant_id = <<"f645ad92-e38d-4d1a-b510-d1b09a74a8ca">>
        /\ config.authority_host = <<"login.microsoftonline.us">>
        /\ pc[t] = "exchange_sent"
        /\ log[t][1].url =
              <<"https", ":", "/", "/", "login.microsoftonline.us", "/", "common", "/",
                "oauth2", "/", "token">>
        /\ log[t][Len(log[t])].url =
              <<"https", ":", "/", "/", "login.microsoftonline.us", "/",
                "f645ad92-e38d-4d1a-b510-d1b09a74a8ca", "/", "oauth2", "/", "token">>

(***************************************************************************)
(* C18.  In a PRT attempt the caller's credential (username and password, *)
(* or refresh token) is in no URL and in no request body except inside    *)
(* the signed JWT that is the request parameter of the exchange POST: the *)
(* nonce request's body is grant_type=srv_challenge and nothing else, and *)
(* an attempt that ends at the nonce request or at signing has sent       *)
(* nothing but that.                                                       *)
(***************************************************************************)
\* sub stands somewhere in s.
Occurs(sub, s) ==
    \E k \in 0..(Len(s) - Len(sub)) : SubSeq(s, k + 1, k + Len(sub)) = sub

CredentialsOf(t) == {call[t].username, call[t].password, call[t].refresh_token} \ {<<>>}

\* The credentials the members of a serialized payload hold.
CredentialsIn(members) ==
    {members[k].str : k \in {j \in 1..Len(members) :
                                 members[j].name \in {"username", "password", "refresh_token"}}}

C18_CredentialOnlyInSignedJwt ==
    \A t \in PrtCalls :
        /\ \A i \in At(t, "post") :
              /\ \A c \in CredentialsOf(t) :
                    /\ ~Occurs(c, log[t][i].url)
                    /\ ~Occurs(c, log[t][i].body)
                    /\ ~Occurs(url_encode(c), log[t][i].body)
              /\ ~IsSome(log[t][i].jws) =>
                    log[t][i].body = <<"grant_type", "=", "srv_challenge">>
              /\ IsSome(log[t][i].jws) =>
                    /\ FormValues(log[t][i].body, "request") =
                          <<Compact(Unwrap(log[t][i].jws))>>
                    /\ CredentialsIn(Unwrap(log[t][i].jws).jws.payload) = CredentialsOf(t)
                    /\ \E j \in At(t, "sign") : j < i /\ log[t][j].tag = "ok"
        /\ (pc[t] = "done" /\ ExchangePosts(t) = {}) =>
              \A i \in At(t, "post") : log[t][i].body = <<"grant_type", "=", "srv_challenge">>

C18_Witness ==
    \E t \in PrtCalls :
        /\ call[t].entry = "acquire_user_prt_by_username_password"
        /\ pc[t] = "done"
        /\ result[t].kind = "TPMFail"
        /\ At(t, "payload") # {}
        /\ Cardinality(At(t, "post")) = 1
        /\ log[t][1].body = <<"grant_type", "=", "srv_challenge">>

(***************************************************************************)
(* C19.  In every UserToken a grant returns, client_info.uid and          *)
(* client_info.utid are both set or both unset; both are unset exactly    *)
(* when the answer held no client_info member.                             *)
(***************************************************************************)
C19_ClientInfoBothOrNeither ==
    \A t \in UserTokenCalls :
        result[t].ok =>
            LET client_info == Unwrap(result[t].val).client_info
                r == TheResp(t, 2)
            IN /\ IsSome(client_info.uid) <=> IsSome(client_info.utid)
               /\ ~IsSome(client_info.uid) <=> BodyMembers(r, "client_info") = {}

C19_Witness ==
    \E t \in UserTokenCalls :
        /\ result[t].ok
        /\ BodyMembers(TheResp(t, 2), "client_info") = {}
        /\ Unwrap(result[t].val).client_info = [uid |-> Nothing, utid |-> Nothing]
        /\ DecodeCalls(t, "decode_client_info") = {}

(***************************************************************************)
(* C20.  Where every collaborator returns, a PRT attempt that has begun   *)
(* ends, and it ends in exactly one outcome: Ok with a                    *)
(* PrimaryRefreshToken, or one of RequestFailed, InvalidJson,             *)
(* AcquireTokenFailed and TPMFail.  Ok is returned only when the exchange *)
(* request was sent and answered 2xx with the PrimaryRefreshToken that is *)
(* returned; an attempt that sent no exchange request returns an error.   *)
(***************************************************************************)
PrtOutcome(t) ==
    LET res == result[t] IN
    /\ res.ok <=> res.kind \notin ErrorKinds
    /\ res.ok =>
          /\ res.kind = "Ok"
          /\ Unwrap(res.val) \in PrimaryRefreshTokens
          /\ ExchangePosts(t) # {}
          /\ \E i \in At(t, "resp") :
                /\ \A j \in ExchangePosts(t) : j < i
                /\ Is2xx(TheResp(t, i))
                /\ TheResp(t, i).body.val = res.val
    /\ ~res.ok => res.kind \in ErrorKinds
    /\ ExchangePosts(t) = {} => ~res.ok

InFlight(t) == t \in PrtCalls /\ pc[t] # "done"

C20_PrtAttemptEnds ==
    /\ [](\A t \in PrtCalls : pc[t] = "done" => PrtOutcome(t))
    /\ \A t \in SeqTasks : InFlight(t) ~> (pc[t] = "done")

C20_Witness ==
    \E t \in PrtCalls :
        /\ pc[t] = "done"
        /\ result[t].ok
        /\ Cardinality(At(t, "resp")) = 2
        /\ Is2xx(TheResp(t, Len(log[t]) - 1))
        /\ log[t][Len(log[t])].tag = "PrimaryRefreshToken"

====
